---------------------------- MODULE Spec2Model ----------------------------
(***************************************************************************)
(* A model of the DAO knowledge graph: the SQLite graph store              *)
(* (core/storage.py), the graph builder (core/graph_builder.py) and the    *)
(* query engine (core/query_engine.py).                                    *)
(*                                                                         *)
(* Python strings that the code takes apart (ids, names, aliases) are      *)
(* sequences of one-character strings; strings the code only compares      *)
(* (type discriminators, dictionary keys) are TLA+ strings.  Python's None *)
(* is the empty sequence <<>> and a present value x is <<x>>.              *)
(***************************************************************************)
EXTENDS Integers, Sequences, FiniteSets, TLC

(***************************************************************************)
(* Characters and strings                                                  *)
(***************************************************************************)
Digits == <<"0", "1", "2", "3", "4", "5", "6", "7", "8", "9">>

UpperCase == <<"A", "B", "C", "D", "E", "F", "G", "H", "I", "J", "K", "L", "M",
               "N", "O", "P", "Q", "R", "S", "T", "U", "V", "W", "X", "Y", "Z">>

LowerCase == <<"a", "b", "c", "d", "e", "f", "g", "h", "i", "j", "k", "l", "m",
               "n", "o", "p", "q", "r", "s", "t", "u", "v", "w", "x", "y", "z">>

\* The characters in code point order: '.' < digits < ':' < upper < '_' < lower.
Ascii == <<".">> \o Digits \o <<":">> \o UpperCase \o <<"_">> \o LowerCase

IndexOf(seq, c) == CHOOSE i \in 1..Len(seq) : seq[i] = c

IsIn(seq, c) == \E i \in 1..Len(seq) : seq[i] = c

\* ord(c), up to an order-preserving renumbering.
Ord(c) == IndexOf(Ascii, c)

\* str.lower() on one character.
LowerChar(c) == IF IsIn(UpperCase, c) THEN LowerCase[IndexOf(UpperCase, c)] ELSE c

\* str.lower()
Lower(s) == [i \in 1..Len(s) |-> LowerChar(s[i])]

\* Python's s < t on strings: lexicographic by code point, a proper prefix first.
RECURSIVE StrLess(_, _)
StrLess(s, t) ==
    IF t = <<>> THEN FALSE
    ELSE IF s = <<>> THEN TRUE
    ELSE IF s[1] # t[1] THEN Ord(s[1]) < Ord(t[1])
    ELSE StrLess(Tail(s), Tail(t))

\* s[:n]
Prefix(s, n) == SubSeq(s, 1, IF n < Len(s) THEN n ELSE Len(s))

\* str(n) for n >= 0.
RECURSIVE IntToStr(_)
IntToStr(n) ==
    IF n < 10 THEN <<Digits[n + 1]>>
    ELSE IntToStr(n \div 10) \o <<Digits[(n % 10) + 1]>>

\* table.split(".")[-1] if "." in table else table: the text after the last dot.
RECURSIVE AfterLastDot(_)
AfterLastDot(s) ==
    IF ~IsIn(s, ".") THEN s
    ELSE AfterLastDot(SubSeq(s, IndexOf(s, ".") + 1, Len(s)))

Dot(a, b) == a \o <<".">> \o b

\* zip(xs, ys): pairs up to the shorter list.
Zip(xs, ys) ==
    [i \in 1..(IF Len(xs) < Len(ys) THEN Len(xs) ELSE Len(ys)) |-> <<xs[i], ys[i]>>]

\* dict.get(key, default)
Get(d, key, default) == IF key \in DOMAIN d THEN d[key] ELSE default

\* {**d, **e}
Merge(d, e) == [k \in (DOMAIN d) \cup (DOMAIN e) |-> IF k \in DOMAIN e THEN e[k] ELSE d[k]]

SeqToSet(s) == {s[i] : i \in 1..Len(s)}

RECURSIVE SumSeq(_)
SumSeq(s) == IF s = <<>> THEN 0 ELSE Head(s) + SumSeq(Tail(s))

(***************************************************************************)
(* Graph store (core/storage.py).  A table of the database is the sequence *)
(* of its rows in rowid order; INSERT OR REPLACE deletes the row with the  *)
(* same primary key and appends the new one.                               *)
(***************************************************************************)
Node(id, type, data) == [id |-> id, type |-> type, data |-> data]

Edge(id, from_id, to_id, type, weight, data) ==
    [id |-> id, from_id |-> from_id, to_id |-> to_id, type |-> type,
     weight |-> weight, data |-> data]

RowsWithout(rows, id) == SelectSeq(rows, LAMBDA r : r.id # id)

\* An insert that keeps the row already stored under the id.
InsertOrIgnore(rows, row) ==
    IF \E i \in 1..Len(rows) : rows[i].id = row.id THEN rows ELSE Append(rows, row)

InsertOrReplace(rows, row) == Append(RowsWithout(rows, row.id), row)

RECURSIVE InsertOrReplaceMany(_, _)
InsertOrReplaceMany(rows, new) ==
    IF new = <<>> THEN rows
    ELSE InsertOrReplaceMany(InsertOrReplace(rows, Head(new)), Tail(new))

add_node(ns, node) == InsertOrReplace(ns, node)

add_nodes(ns, list) == InsertOrReplaceMany(ns, list)

add_edge(es, edge) == InsertOrReplace(es, edge)

add_edges(es, list) == InsertOrReplaceMany(es, list)

get_node(ns, node_id) ==
    LET hit == SelectSeq(ns, LAMBDA r : r.id = node_id)
    IN IF hit = <<>> THEN <<>> ELSE <<hit[1]>>

get_edge(es, edge_id) ==
    LET hit == SelectSeq(es, LAMBDA r : r.id = edge_id)
    IN IF hit = <<>> THEN <<>> ELSE <<hit[1]>>

get_nodes_by_type(ns, node_type) == SelectSeq(ns, LAMBDA r : r.type = node_type)

get_edges_by_type(es, edge_type) == SelectSeq(es, LAMBDA r : r.type = edge_type)

get_stats(ns, es) ==
    [tables |-> Len(get_nodes_by_type(ns, "table")),
     columns |-> Len(get_nodes_by_type(ns, "column")),
     foreign_keys |-> Len(get_edges_by_type(es, "fk")),
     column_relationships |-> Len(get_edges_by_type(es, "fk_col"))]

(***************************************************************************)
(* Metadata snapshot (core/extractor.py)                                   *)
(***************************************************************************)
\* TableInfo.full_name, ColumnInfo.full_table_name, PrimaryKeyInfo.full_table_name
full_name(schema, name) == Dot(schema, name)

\* ColumnInfo.full_name
column_full_name(c) == Dot(Dot(c.table_schema, c.table_name), c.name)

\* ForeignKeyInfo.from_full_name
from_full_name(fk) == Dot(fk.from_schema, fk.from_table)

\* ForeignKeyInfo.to_full_name
to_full_name(fk) == Dot(fk.to_schema, fk.to_table)

(***************************************************************************)
(* Graph builder (core/graph_builder.py).  Of a node's attributes the      *)
(* model keeps those the store and the engine read back: schema, name and  *)
(* primary_key of a table; table, name, is_pk and is_fk of a column.       *)
(***************************************************************************)
WEIGHT_FK == 1

WEIGHT_FK_COL == 1

FormatVersion == <<"1", ".", "0">>

\* _build_pk_lookup: table id -> the set of the columns of all its primary keys.
RECURSIVE build_pk_lookup(_, _)
build_pk_lookup(primary_keys, acc) ==
    IF primary_keys = <<>> THEN acc
    ELSE LET pk == Head(primary_keys)
             table_name == full_name(pk.table_schema, pk.table_name)
             old == Get(acc, table_name, {})
         IN build_pk_lookup(Tail(primary_keys),
                            Merge(acc, table_name :> (old \cup SeqToSet(pk.columns))))

\* _is_pk_column
is_pk_column(pk_columns, table_name, column_name) ==
    column_name \in Get(pk_columns, table_name, {})

\* pk_lookup of _create_table_nodes: table id -> the column list of its last primary key.
RECURSIVE table_pk_lookup(_, _)
table_pk_lookup(primary_keys, acc) ==
    IF primary_keys = <<>> THEN acc
    ELSE LET pk == Head(primary_keys)
         IN table_pk_lookup(Tail(primary_keys),
                            Merge(acc, full_name(pk.table_schema, pk.table_name) :> pk.columns))

create_table_nodes(tables, primary_keys) ==
    LET pk_lookup == table_pk_lookup(primary_keys, <<>>)
    IN [i \in 1..Len(tables) |->
          Node(full_name(tables[i].schema, tables[i].name), "table",
               [schema |-> tables[i].schema,
                name |-> tables[i].name,
                primary_key |-> Get(pk_lookup, full_name(tables[i].schema, tables[i].name), <<>>)])]

create_column_nodes(columns, pk_columns) ==
    [i \in 1..Len(columns) |->
       Node(column_full_name(columns[i]), "column",
            [table |-> full_name(columns[i].table_schema, columns[i].table_name),
             name |-> columns[i].name,
             is_pk |-> is_pk_column(pk_columns,
                                    full_name(columns[i].table_schema, columns[i].table_name),
                                    columns[i].name),
             is_fk |-> FALSE])]

\* The via list of an fk edge: alternating from and to column ids.
RECURSIVE via_columns(_, _)
via_columns(fk, pairs) ==
    IF pairs = <<>> THEN <<>>
    ELSE <<Dot(from_full_name(fk), Head(pairs)[1]), Dot(to_full_name(fk), Head(pairs)[2])>>
         \o via_columns(fk, Tail(pairs))

fk_edge(fk) ==
    Edge(<<"f", "k", ":">> \o fk.constraint_name, from_full_name(fk), to_full_name(fk),
         "fk", WEIGHT_FK,
         [constraint_name |-> fk.constraint_name,
          from_columns |-> fk.from_columns,
          to_columns |-> fk.to_columns,
          via |-> via_columns(fk, Zip(fk.from_columns, fk.to_columns))])

\* _create_fk_edges: the first constraint of each ordered table pair.
RECURSIVE create_fk_edges(_, _)
create_fk_edges(foreign_keys, seen) ==
    IF foreign_keys = <<>> THEN <<>>
    ELSE LET fk == Head(foreign_keys)
             edge_key == <<from_full_name(fk), to_full_name(fk)>>
         IN IF edge_key \in seen
            THEN create_fk_edges(Tail(foreign_keys), seen)
            ELSE <<fk_edge(fk)>> \o create_fk_edges(Tail(foreign_keys), seen \cup {edge_key})

\* _mark_column_as_fk: a read-modify-write of the column's node in the store.
mark_column_as_fk(ns, column_id) ==
    LET node == get_node(ns, column_id)
    IN IF node # <<>>
       THEN add_node(ns, [node[1] EXCEPT !.data = Merge(@, [is_fk |-> TRUE])])
       ELSE ns

\* enumerate(zip(fk.from_columns, fk.to_columns)) counts from 0.
fk_col_edge(fk, i, pair) ==
    Edge(<<"f", "k", "_", "c", "o", "l", ":">> \o fk.constraint_name \o <<":">> \o IntToStr(i - 1),
         Dot(from_full_name(fk), pair[1]), Dot(to_full_name(fk), pair[2]),
         "fk_col", WEIGHT_FK_COL,
         [constraint_name |-> fk.constraint_name,
          from_table |-> from_full_name(fk),
          to_table |-> to_full_name(fk)])

\* The column pairs of all constraints, in the order _create_fk_column_edges visits them.
RECURSIVE fk_column_pairs(_)
fk_column_pairs(foreign_keys) ==
    IF foreign_keys = <<>> THEN <<>>
    ELSE LET fk == Head(foreign_keys)
             pairs == Zip(fk.from_columns, fk.to_columns)
         IN [i \in 1..Len(pairs) |-> [fk |-> fk, i |-> i, pair |-> pairs[i]]]
            \o fk_column_pairs(Tail(foreign_keys))

\* _create_fk_column_edges, the edges it returns.
create_fk_column_edges(foreign_keys) ==
    LET ps == fk_column_pairs(foreign_keys)
    IN [k \in 1..Len(ps) |-> fk_col_edge(ps[k].fk, ps[k].i, ps[k].pair)]

\* _create_fk_column_edges, its writes: the nodes of the store after it has
\* marked every from column, against the store as it is when it runs.
RECURSIVE mark_fk_columns(_, _)
mark_fk_columns(ns, col_edges) ==
    IF col_edges = <<>> THEN ns
    ELSE mark_fk_columns(mark_column_as_fk(ns, Head(col_edges).from_id), Tail(col_edges))

\* A cleared store whose metadata table was not deleted from.
StoreWithVersion == [nodes |-> <<>>, edges |-> <<>>, metadata |-> [version |-> <<"1", ".", "0">>]]

\* GraphStorage.clear
EmptyStore == [nodes |-> <<>>, edges |-> <<>>, metadata |-> <<>>]

\* GraphStorage.set_metadata
set_metadata(md, key, value) == Merge(md, key :> value)

\* GraphStorage.get_metadata
get_metadata(md, key) == IF key \in DOMAIN md THEN <<md[key]>> ELSE <<>>

\* A build that never clears the store.
build_store_keeping(store, metadata, clear_existing, now) ==
    LET pk_columns == build_pk_lookup(metadata.primary_keys, <<>>)
        table_nodes == create_table_nodes(metadata.tables, metadata.primary_keys)
        column_nodes == create_column_nodes(metadata.columns, pk_columns)
        fk_edges == create_fk_edges(metadata.foreign_keys, {})
        fk_col_edges == create_fk_column_edges(metadata.foreign_keys)
        marked == mark_fk_columns(store.nodes, fk_col_edges)
    IN [nodes |-> add_nodes(add_nodes(marked, table_nodes), column_nodes),
        edges |-> add_edges(add_edges(store.edges, fk_edges), fk_col_edges),
        metadata |->
            set_metadata(
              set_metadata(
                set_metadata(
                  set_metadata(store.metadata, "database_name", metadata.database_name),
                  "server_name", metadata.server_name),
                "scan_timestamp", now),
              "version", FormatVersion)]

\* GraphBuilder.build: the store it leaves.
build_store(store, metadata, clear_existing, now) ==
    LET s0 == IF clear_existing THEN EmptyStore ELSE store
        pk_columns == build_pk_lookup(metadata.primary_keys, <<>>)
        table_nodes == create_table_nodes(metadata.tables, metadata.primary_keys)
        column_nodes == create_column_nodes(metadata.columns, pk_columns)
        fk_edges == create_fk_edges(metadata.foreign_keys, {})
        fk_col_edges == create_fk_column_edges(metadata.foreign_keys)
        marked == mark_fk_columns(s0.nodes, fk_col_edges)
    IN [nodes |-> add_nodes(add_nodes(marked, table_nodes), column_nodes),
        edges |-> add_edges(add_edges(s0.edges, fk_edges), fk_col_edges),
        metadata |->
            set_metadata(
              set_metadata(
                set_metadata(
                  set_metadata(s0.metadata, "database_name", metadata.database_name),
                  "server_name", metadata.server_name),
                "scan_timestamp", now),
              "version", FormatVersion)]

\* A build that does not clear the store first.
build_calls_without_clear(metadata, now) ==
    LET pk_columns == build_pk_lookup(metadata.primary_keys, <<>>)
        fk_col_edges == create_fk_column_edges(metadata.foreign_keys)
    IN [j \in 1..(2 * Len(fk_col_edges)) |->
           IF j % 2 = 1 THEN [call |-> "get_node", id |-> fk_col_edges[(j + 1) \div 2].from_id]
           ELSE [call |-> "add_node"]]
       \o <<[call |-> "add_nodes",
             rows |-> create_table_nodes(metadata.tables, metadata.primary_keys)],
            [call |-> "add_nodes", rows |-> create_column_nodes(metadata.columns, pk_columns)],
            [call |-> "add_edges", rows |-> create_fk_edges(metadata.foreign_keys, {})],
            [call |-> "add_edges", rows |-> fk_col_edges],
            [call |-> "set_metadata", key |-> "database_name", value |-> metadata.database_name],
            [call |-> "set_metadata", key |-> "server_name", value |-> metadata.server_name],
            [call |-> "set_metadata", key |-> "scan_timestamp", value |-> now],
            [call |-> "set_metadata", key |-> "version", value |-> FormatVersion]>>

\* GraphBuilder.build(metadata, clear_existing = True) as the calls it makes
\* on the store, in order: clear, the get_node and add_node of
\* _mark_column_as_fk for each column pair (add_node only for a node that
\* get_node found), the four bulk inserts and the four set_metadata.
build_calls(metadata, now) ==
    LET pk_columns == build_pk_lookup(metadata.primary_keys, <<>>)
        fk_col_edges == create_fk_column_edges(metadata.foreign_keys)
    IN <<[call |-> "clear"]>>
       \o [j \in 1..(2 * Len(fk_col_edges)) |->
              IF j % 2 = 1 THEN [call |-> "get_node", id |-> fk_col_edges[(j + 1) \div 2].from_id]
              ELSE [call |-> "add_node"]]
       \o <<[call |-> "add_nodes",
             rows |-> create_table_nodes(metadata.tables, metadata.primary_keys)],
            [call |-> "add_nodes", rows |-> create_column_nodes(metadata.columns, pk_columns)],
            [call |-> "add_edges", rows |-> create_fk_edges(metadata.foreign_keys, {})],
            [call |-> "add_edges", rows |-> fk_col_edges],
            [call |-> "set_metadata", key |-> "database_name", value |-> metadata.database_name],
            [call |-> "set_metadata", key |-> "server_name", value |-> metadata.server_name],
            [call |-> "set_metadata", key |-> "scan_timestamp", value |-> now],
            [call |-> "set_metadata", key |-> "version", value |-> FormatVersion]>>

\* The store after one call of a build; held is the node the build's last
\* get_node returned.
build_call(store, c, held) ==
    IF c.call = "clear" THEN EmptyStore
    ELSE IF c.call = "add_node"
    THEN [store EXCEPT !.nodes = add_node(@, [held[1] EXCEPT !.data = Merge(@, [is_fk |-> TRUE])])]
    ELSE IF c.call = "add_nodes" THEN [store EXCEPT !.nodes = add_nodes(@, c.rows)]
    ELSE IF c.call = "add_edges" THEN [store EXCEPT !.edges = add_edges(@, c.rows)]
    ELSE IF c.call = "set_metadata"
    THEN [store EXCEPT !.metadata = set_metadata(@, c.key, c.value)]
    ELSE store

\* GraphBuilder.build: the statistics it returns.
build_stats(metadata) ==
    [tables |-> Len(create_table_nodes(metadata.tables, metadata.primary_keys)),
     columns |-> Len(create_column_nodes(metadata.columns,
                                         build_pk_lookup(metadata.primary_keys, <<>>))),
     foreign_keys |-> Len(create_fk_edges(metadata.foreign_keys, {})),
     column_relationships |-> Len(create_fk_column_edges(metadata.foreign_keys)),
     database |-> metadata.database_name,
     server |-> metadata.server_name]

(***************************************************************************)
(* Query engine (core/query_engine.py)                                     *)
(***************************************************************************)
\* A reverse edge that costs nothing to traverse.
reverse_edge_weightless(edge) ==
    Edge(<<"r", "e", "v", ":">> \o edge.id, edge.to_id, edge.from_id, edge.type, 0,
         Merge(edge.data, [reverse |-> TRUE, original_direction |-> "from"]))

\* A reverse edge that keeps the endpoints of the stored edge.
reverse_edge_unswapped(edge) ==
    Edge(<<"r", "e", "v", ":">> \o edge.id, edge.from_id, edge.to_id, edge.type, edge.weight,
         Merge(edge.data, [reverse |-> TRUE, original_direction |-> "from"]))

\* The reverse edge _build_adjacency synthesizes for an fk edge.
reverse_edge(edge) ==
    Edge(<<"r", "e", "v", ":">> \o edge.id, edge.to_id, edge.from_id, edge.type, edge.weight,
         Merge(edge.data, [reverse |-> TRUE, original_direction |-> "from"]))

\* self._adjacency[key].append(entry), creating the list when the key is new.
adjacency_append(adj, key, entry) == Merge(adj, key :> Append(Get(adj, key, <<>>), entry))

\* An adjacency_of that indexes the forward entries only.
RECURSIVE adjacency_forward_only(_, _)
adjacency_forward_only(fk_edges, adj) ==
    IF fk_edges = <<>> THEN adj
    ELSE LET edge == Head(fk_edges)
         IN adjacency_forward_only(Tail(fk_edges),
                                   adjacency_append(adj, edge.from_id, <<edge.to_id, edge>>))

RECURSIVE adjacency_of(_, _)
adjacency_of(fk_edges, adj) ==
    IF fk_edges = <<>> THEN adj
    ELSE LET edge == Head(fk_edges)
             forward == adjacency_append(adj, edge.from_id, <<edge.to_id, edge>>)
         IN adjacency_of(Tail(fk_edges),
                         adjacency_append(forward, edge.to_id,
                                          <<edge.from_id, reverse_edge(edge)>>))

\* A build_adjacency that forgets the type filter: every edge of the store is indexed.
build_adjacency_any_type(es) == adjacency_of(es, <<>>)

\* _build_adjacency: node id -> list of (neighbor id, edge), from the fk edges of the store.
build_adjacency(es) == adjacency_of(get_edges_by_type(es, "fk"), <<>>)

\* _resolve_table_name: <<id>>, or <<>> for None.
resolve_table_name(ns, table_name) ==
    LET node == get_node(ns, table_name)
        tables == get_nodes_by_type(ns, "table")
        hits == SelectSeq(tables,
                          LAMBDA t : Lower(Get(t.data, "name", <<>>)) = Lower(table_name))
    IN IF node # <<>> /\ node[1].type = "table" THEN <<table_name>>
       ELSE IF hits # <<>> THEN <<hits[1].id>>
       ELSE <<>>

\* _explain_path: the text, kept as its parts.
explain_path(path, edges) ==
    IF Len(path) = 0 THEN <<"Empty path.">>
    ELSE IF Len(path) = 1 THEN <<"Single table: ", path[1]>>
    ELSE <<"Path: ", path[1],
           [i \in 1..Len(edges) |->
              <<IF Get(edges[i].data, "reverse", FALSE) = FALSE THEN "->" ELSE "<-",
                path[i + 1],
                Get(edges[i].data, "constraint_name", <<>>)>>]>>

PathResult(found, path, edges, total_weight, explanation) ==
    [found |-> found, path |-> path, edges |-> edges, total_weight |-> total_weight,
     explanation |-> explanation]

\* Python's (d1, n1) < (d2, n2) on the heap's tuples.
HeapLess(x, y) == x[1] < y[1] \/ (x[1] = y[1] /\ StrLess(x[2], y[2]))

\* The tuple heapq.heappop returns: the least one.  No tuple is pushed twice (a
\* node is pushed again only with a strictly smaller distance), so a set holds the heap.
HeapMin(heap) == CHOOSE x \in heap : \A y \in heap : y = x \/ HeapLess(x, y)

\* A relax_neighbors that keeps the first distance it finds for a neighbor.
RECURSIVE relax_neighbors_first_wins(_, _, _, _, _)
relax_neighbors_first_wins(entries, i, current, current_dist, st) ==
    IF i > Len(entries) THEN st
    ELSE LET neighbor == entries[i][1]
             edge == entries[i][2]
             new_dist == current_dist + edge.weight
         IN IF neighbor \in st.visited \/ neighbor \in DOMAIN st.distances
            THEN relax_neighbors_first_wins(entries, i + 1, current, current_dist, st)
            ELSE relax_neighbors_first_wins(entries, i + 1, current, current_dist,
                   [st EXCEPT !.distances = Merge(@, neighbor :> new_dist),
                              !.previous = Merge(@, neighbor :> <<current, edge>>),
                              !.heap = @ \cup {<<new_dist, neighbor>>}])

\* The for loop of find_path over the neighbors of current, from entry i on.
RECURSIVE relax_neighbors(_, _, _, _, _)
relax_neighbors(entries, i, current, current_dist, st) ==
    IF i > Len(entries) THEN st
    ELSE LET neighbor == entries[i][1]
             edge == entries[i][2]
             new_dist == current_dist + edge.weight
         IN IF neighbor \in st.visited
            THEN relax_neighbors(entries, i + 1, current, current_dist, st)
            ELSE IF neighbor \notin DOMAIN st.distances \/ new_dist < st.distances[neighbor]
            THEN relax_neighbors(entries, i + 1, current, current_dist,
                   [st EXCEPT !.distances = Merge(@, neighbor :> new_dist),
                              !.previous = Merge(@, neighbor :> <<current, edge>>),
                              !.heap = @ \cup {<<new_dist, neighbor>>}])
            ELSE relax_neighbors(entries, i + 1, current, current_dist, st)

\* An iteration that expands the popped node although it was expanded before.
search_step_revisiting(adj, to_table, st) ==
    LET top == HeapMin(st.heap)
        seen == [st EXCEPT !.heap = @ \ {top}, !.visited = @ \cup {top[2]},
                           !.expanded = Append(@, top[2])]
    IN IF top[2] = to_table THEN seen
       ELSE relax_neighbors(Get(adj, top[2], <<>>), 1, top[2], top[1], seen)

\* One iteration of the while loop of find_path, on a non-empty heap;
\* expanded lists the nodes taken past the visited test, in order.
search_step(adj, to_table, st) ==
    LET top == HeapMin(st.heap)
        popped == [st EXCEPT !.heap = @ \ {top}]
        seen == [popped EXCEPT !.visited = @ \cup {top[2]}, !.expanded = Append(@, top[2])]
    IN IF top[2] \in st.visited THEN popped
       ELSE IF top[2] = to_table THEN seen
       ELSE relax_neighbors(Get(adj, top[2], <<>>), 1, top[2], top[1], seen)

\* The while loop of find_path: Dijkstra's algorithm with lazy deletion.
RECURSIVE dijkstra_loop(_, _, _)
dijkstra_loop(adj, to_table, st) ==
    IF st.heap = {} THEN st
    ELSE LET top == HeapMin(st.heap)
             current_dist == top[1]
             current == top[2]
             popped == [st EXCEPT !.heap = @ \ {top}]
         IN IF current \in st.visited THEN dijkstra_loop(adj, to_table, popped)
            ELSE LET seen == [popped EXCEPT !.visited = @ \cup {current}]
                 IN IF current = to_table THEN seen
                    ELSE dijkstra_loop(adj, to_table,
                           relax_neighbors(Get(adj, current, <<>>), 1, current, current_dist, seen))

dijkstra(adj, from_table, to_table) ==
    dijkstra_loop(adj, to_table,
                  [distances |-> (from_table :> 0), previous |-> <<>>,
                   heap |-> {<<0, from_table>>}, visited |-> {}])

\* The reconstruction loop of find_path: the path and the edges, target first.
RECURSIVE walk_back(_, _)
walk_back(previous, current) ==
    IF current \in DOMAIN previous
    THEN LET rest == walk_back(previous, previous[current][1])
         IN [path |-> <<current>> \o rest.path, edges |-> <<previous[current][2]>> \o rest.edges]
    ELSE [path |-> <<>>, edges |-> <<>>]

\* list.reverse()
Reverse(s) == [i \in 1..Len(s) |-> s[Len(s) + 1 - i]]

\* A search_path whose not-found result keeps the source table as its path.
search_path_keeps_source(adj, from_table, to_table) ==
    LET st == dijkstra(adj, from_table, to_table)
        back == walk_back(st.previous, to_table)
        path == Reverse(Append(back.path, from_table))
        edges == Reverse(back.edges)
    IN IF to_table \notin DOMAIN st.previous /\ from_table # to_table
       THEN PathResult(FALSE, <<from_table>>, <<>>, 0,
                       <<"No path found between ", from_table, to_table>>)
       ELSE PathResult(TRUE, path, edges, Get(st.distances, to_table, 0),
                       explain_path(path, edges))

\* find_path on resolved ids that differ.
search_path(adj, from_table, to_table) ==
    LET st == dijkstra(adj, from_table, to_table)
        back == walk_back(st.previous, to_table)
        path == Reverse(Append(back.path, from_table))
        edges == Reverse(back.edges)
    IN IF to_table \notin DOMAIN st.previous /\ from_table # to_table
       THEN PathResult(FALSE, <<>>, <<>>, 0, <<"No path found between ", from_table, to_table>>)
       ELSE PathResult(TRUE, path, edges, Get(st.distances, to_table, 0),
                       explain_path(path, edges))

\* A find_path whose same-table result carries the name as given, not the resolved id.
find_path_name_as_given(ns, adj, from_name, to_name) ==
    LET from_table == resolve_table_name(ns, from_name)
        to_table == resolve_table_name(ns, to_name)
    IN IF from_table = <<>> \/ to_table = <<>>
       THEN PathResult(FALSE, <<>>, <<>>, 0, <<"One or both tables not found in the graph.">>)
       ELSE IF from_table = to_table
       THEN PathResult(TRUE, <<from_name>>, <<>>, 0,
                       <<"Same table specified for source and target.">>)
       ELSE search_path(adj, from_table[1], to_table[1])

find_path(ns, adj, from_name, to_name) ==
    LET from_table == resolve_table_name(ns, from_name)
        to_table == resolve_table_name(ns, to_name)
    IN IF from_table = <<>> \/ to_table = <<>>
       THEN PathResult(FALSE, <<>>, <<>>, 0, <<"One or both tables not found in the graph.">>)
       ELSE IF from_table = to_table
       THEN PathResult(TRUE, <<from_table[1]>>, <<>>, 0,
                       <<"Same table specified for source and target.">>)
       ELSE search_path(adj, from_table[1], to_table[1])

\* A stitch_paths that appends each segment whole, its first node included.
RECURSIVE stitch_paths_keep_junction(_, _, _, _, _)
stitch_paths_keep_junction(ns, adj, resolved_tables, i, acc) ==
    IF i > Len(resolved_tables) - 1
    THEN PathResult(TRUE, acc.path, acc.edges, acc.total_weight,
                    explain_path(acc.path, acc.edges))
    ELSE LET segment == find_path(ns, adj, resolved_tables[i], resolved_tables[i + 1])
         IN IF ~segment.found
            THEN PathResult(FALSE, acc.path, acc.edges, acc.total_weight,
                            <<"No path found between ", resolved_tables[i], resolved_tables[i + 1]>>)
            ELSE stitch_paths_keep_junction(ns, adj, resolved_tables, i + 1,
                              [path |-> acc.path \o segment.path,
                               edges |-> acc.edges \o segment.edges,
                               total_weight |-> acc.total_weight + segment.total_weight])

\* A stitch_paths that reports the weight of the last segment as the total.
RECURSIVE stitch_paths_last_weight(_, _, _, _, _)
stitch_paths_last_weight(ns, adj, resolved_tables, i, acc) ==
    IF i > Len(resolved_tables) - 1
    THEN PathResult(TRUE, acc.path, acc.edges, acc.total_weight,
                    explain_path(acc.path, acc.edges))
    ELSE LET segment == find_path(ns, adj, resolved_tables[i], resolved_tables[i + 1])
         IN IF ~segment.found
            THEN PathResult(FALSE, acc.path, acc.edges, acc.total_weight,
                            <<"No path found between ", resolved_tables[i], resolved_tables[i + 1]>>)
            ELSE stitch_paths_last_weight(ns, adj, resolved_tables, i + 1,
                              [path |-> acc.path \o Tail(segment.path),
                               edges |-> acc.edges \o segment.edges,
                               total_weight |-> segment.total_weight])

\* A stitch_paths that drops what it has accumulated when a pair is unreachable.
RECURSIVE stitch_paths_drops_partial(_, _, _, _, _)
stitch_paths_drops_partial(ns, adj, resolved_tables, i, acc) ==
    IF i > Len(resolved_tables) - 1
    THEN PathResult(TRUE, acc.path, acc.edges, acc.total_weight,
                    explain_path(acc.path, acc.edges))
    ELSE LET segment == find_path(ns, adj, resolved_tables[i], resolved_tables[i + 1])
         IN IF ~segment.found
            THEN PathResult(FALSE, <<>>, <<>>, 0,
                            <<"No path found between ", resolved_tables[i], resolved_tables[i + 1]>>)
            ELSE stitch_paths_drops_partial(ns, adj, resolved_tables, i + 1,
                              [path |-> acc.path \o Tail(segment.path),
                               edges |-> acc.edges \o segment.edges,
                               total_weight |-> acc.total_weight + segment.total_weight])

\* The loop of find_multi_path over the consecutive pairs, from pair i on.
RECURSIVE stitch_paths(_, _, _, _, _)
stitch_paths(ns, adj, resolved_tables, i, acc) ==
    IF i > Len(resolved_tables) - 1
    THEN PathResult(TRUE, acc.path, acc.edges, acc.total_weight,
                    explain_path(acc.path, acc.edges))
    ELSE LET result == find_path(ns, adj, resolved_tables[i], resolved_tables[i + 1])
         IN IF ~result.found
            THEN PathResult(FALSE, acc.path, acc.edges, acc.total_weight,
                            <<"No path found between ", resolved_tables[i], resolved_tables[i + 1]>>)
            ELSE stitch_paths(ns, adj, resolved_tables, i + 1,
                              [path |-> acc.path \o Tail(result.path),
                               edges |-> acc.edges \o result.edges,
                               total_weight |-> acc.total_weight + result.total_weight])

\* A find_multi_path whose failure names every input name.
find_multi_path_names_all(ns, adj, tables) ==
    LET resolved == [i \in 1..Len(tables) |-> resolve_table_name(ns, tables[i])]
        resolved_tables == [i \in 1..Len(tables) |-> resolved[i][1]]
    IN IF Len(tables) < 2
       THEN PathResult(FALSE, tables, <<>>, 0, <<"Need at least two tables to find a path.">>)
       ELSE IF \E i \in 1..Len(tables) : resolved[i] = <<>>
       THEN PathResult(FALSE, <<>>, <<>>, 0, <<"Tables not found: ", tables>>)
       ELSE stitch_paths(ns, adj, resolved_tables, 1,
                         [path |-> <<resolved_tables[1]>>, edges |-> <<>>, total_weight |-> 0])

\* A find_multi_path that resolves the names before it counts them.
find_multi_path_resolves_first(ns, adj, tables) ==
    LET resolved == [i \in 1..Len(tables) |-> resolve_table_name(ns, tables[i])]
        missing_at == SelectSeq([i \in 1..Len(tables) |-> i], LAMBDA i : resolved[i] = <<>>)
        missing == [k \in 1..Len(missing_at) |-> tables[missing_at[k]]]
        resolved_tables == [i \in 1..Len(tables) |-> resolved[i][1]]
    IN IF missing # <<>>
       THEN PathResult(FALSE, <<>>, <<>>, 0, <<"Tables not found: ", missing>>)
       ELSE IF Len(tables) < 2
       THEN PathResult(FALSE, tables, <<>>, 0, <<"Need at least two tables to find a path.">>)
       ELSE stitch_paths(ns, adj, resolved_tables, 1,
                         [path |-> <<resolved_tables[1]>>, edges |-> <<>>, total_weight |-> 0])

find_multi_path(ns, adj, tables) ==
    LET resolved == [i \in 1..Len(tables) |-> resolve_table_name(ns, tables[i])]
        missing_at == SelectSeq([i \in 1..Len(tables) |-> i], LAMBDA i : resolved[i] = <<>>)
        missing == [k \in 1..Len(missing_at) |-> tables[missing_at[k]]]
        resolved_tables == [i \in 1..Len(tables) |-> resolved[i][1]]
    IN IF Len(tables) < 2
       THEN PathResult(FALSE, tables, <<>>, 0, <<"Need at least two tables to find a path.">>)
       ELSE IF missing # <<>>
       THEN PathResult(FALSE, <<>>, <<>>, 0, <<"Tables not found: ", missing>>)
       ELSE stitch_paths(ns, adj, resolved_tables, 1,
                         [path |-> <<resolved_tables[1]>>, edges |-> <<>>, total_weight |-> 0])

\* A next_free_alias that goes from the first letter straight to the numbers.
RECURSIVE next_free_alias_numbers_only(_, _, _, _, _)
next_free_alias_numbers_only(name, base, alias, counter, used) ==
    IF alias \notin used THEN alias
    ELSE next_free_alias_numbers_only(name, base, base \o IntToStr(counter), counter + 1, used)

\* The while loop of _generate_aliases: the first candidate not in used.
RECURSIVE next_free_alias(_, _, _, _, _)
next_free_alias(name, base, alias, counter, used) ==
    IF alias \notin used THEN alias
    ELSE LET c == counter + 1
         IN next_free_alias(name, base,
                            IF c <= Len(name) THEN Lower(Prefix(name, c))
                            ELSE base \o IntToStr(c - Len(name)),
                            c, used)

\* An assign_aliases that never records the aliases it has given out.
RECURSIVE assign_aliases_forgetful(_, _, _)
assign_aliases_forgetful(tables, aliases, used) ==
    IF tables = <<>> THEN aliases
    ELSE LET table == Head(tables)
             name == AfterLastDot(table)
             base == Lower(Prefix(name, 1))
             alias == next_free_alias(name, base, base, 1, used)
         IN assign_aliases_forgetful(Tail(tables), Merge(aliases, table :> alias), used)

\* The for loop of _generate_aliases.
RECURSIVE assign_aliases(_, _, _)
assign_aliases(tables, aliases, used) ==
    IF tables = <<>> THEN aliases
    ELSE LET table == Head(tables)
             name == AfterLastDot(table)
             base == Lower(Prefix(name, 1))
             alias == next_free_alias(name, base, base, 1, used)
         IN assign_aliases(Tail(tables), Merge(aliases, table :> alias), used \cup {alias})

\* _generate_aliases: table id -> alias.
generate_aliases(tables) == assign_aliases(tables, <<>>, {})

\* One ON condition, "<lhs_alias>.<lhs_column> = <rhs_alias>.<rhs_column>".
Condition(lhs_alias, lhs_column, rhs_alias, rhs_column) ==
    [lhs_alias |-> lhs_alias, lhs_column |-> lhs_column,
     rhs_alias |-> rhs_alias, rhs_column |-> rhs_column]

\* The ON conditions generate_join builds for the edge from from_table to to_table.
on_conditions(edge, aliases, from_table, to_table) ==
    LET is_reverse == Get(edge.data, "reverse", FALSE)
        from_cols == IF is_reverse THEN Get(edge.data, "to_columns", <<>>)
                     ELSE Get(edge.data, "from_columns", <<>>)
        to_cols == IF is_reverse THEN Get(edge.data, "from_columns", <<>>)
                   ELSE Get(edge.data, "to_columns", <<>>)
        pairs == Zip(from_cols, to_cols)
    IN [k \in 1..Len(pairs) |->
          IF is_reverse
          THEN Condition(aliases[to_table], pairs[k][1], aliases[from_table], pairs[k][2])
          ELSE Condition(aliases[to_table], pairs[k][2], aliases[from_table], pairs[k][1])]

JoinResult(success, sql, tables, joins, explanation) ==
    [success |-> success, sql |-> sql, tables |-> tables, joins |-> joins,
     explanation |-> explanation]

\* The SQL text of generate_join, kept as the sequence of its clauses: SELECT,
\* FROM, and one JOIN ... ON per edge ("1=1" when the edge has no column pair).
join_sql(path, edges, aliases, select_all) ==
    <<[kw |-> "SELECT",
       items |-> IF select_all THEN [i \in 1..Len(path) |-> aliases[path[i]]] ELSE <<"*">>],
      [kw |-> "FROM", table |-> path[1], alias |-> aliases[path[1]]]>>
    \o [i \in 1..Len(edges) |->
          [kw |-> "JOIN", table |-> path[i + 1], alias |-> aliases[path[i + 1]],
           on |-> on_conditions(edges[i], aliases, path[i], path[i + 1]),
           always_true |-> on_conditions(edges[i], aliases, path[i], path[i + 1]) = <<>>]]

\* joins_info of generate_join.
joins_info(path, edges, aliases) ==
    [i \in 1..Len(edges) |->
       [from_table |-> path[i], from_alias |-> aliases[path[i]],
        to_table |-> path[i + 1], to_alias |-> aliases[path[i + 1]],
        on_conditions |-> on_conditions(edges[i], aliases, path[i], path[i + 1]),
        constraint |-> Get(edges[i].data, "constraint_name", <<>>)]]

generate_join(ns, adj, tables, select_all) ==
    LET path_result == find_multi_path(ns, adj, tables)
        aliases == generate_aliases(path_result.path)
    IN IF Len(tables) < 2
       THEN JoinResult(FALSE, <<>>, tables, <<>>,
                       <<"Need at least two tables to generate a join.">>)
       ELSE IF ~path_result.found
       THEN JoinResult(FALSE, <<>>, tables, <<>>, path_result.explanation)
       ELSE JoinResult(TRUE,
                       join_sql(path_result.path, path_result.edges, aliases, select_all),
                       path_result.path,
                       joins_info(path_result.path, path_result.edges, aliases),
                       <<"Generated join connecting tables via JOIN(s).",
                         Len(path_result.path), Len(path_result.edges)>>)

\* The summary explain_table gives of an fk edge; peer is "to_table" for an
\* outgoing edge and "from_table" for an incoming one.
relationship(peer, table, edge) ==
    (peer :> table)
    @@ [constraint |-> Get(edge.data, "constraint_name", <<>>),
        from_columns |-> Get(edge.data, "from_columns", <<>>),
        to_columns |-> Get(edge.data, "to_columns", <<>>)]

TableExplanation(table_name, table_node, columns, outgoing, incoming) ==
    [table_name |-> table_name,
     schema |-> Get(table_node.data, "schema", <<>>),
     name |-> Get(table_node.data, "name", <<>>),
     primary_key |-> Get(table_node.data, "primary_key", <<>>),
     columns |-> columns,
     outgoing_relationships |-> outgoing,
     incoming_relationships |-> incoming]

\* explain_table: <<explanation>>, or <<>> for None.  The columns are
\* sorted by ordinal_position, which no column of the model carries: the
\* key is 0 for all and the stable sort keeps the order of the store.
explain_table(ns, es, table_name) ==
    LET resolved_name == resolve_table_name(ns, table_name)
        table_node == get_node(ns, resolved_name[1])
        all_columns == get_nodes_by_type(ns, "column")
        own == SelectSeq(all_columns, LAMBDA c : Get(c.data, "table", <<>>) = resolved_name[1])
        columns == [i \in 1..Len(own) |-> own[i].data]
        fk == get_edges_by_type(es, "fk")
        out == SelectSeq(fk, LAMBDA e : e.from_id = resolved_name[1])
        inc == SelectSeq(fk, LAMBDA e : e.from_id # resolved_name[1] /\ e.to_id = resolved_name[1])
    IN IF resolved_name = <<>> THEN <<>>
       ELSE IF table_node = <<>> THEN <<>>
       ELSE <<TableExplanation(resolved_name[1], table_node[1], columns,
                [i \in 1..Len(out) |-> relationship("to_table", out[i].to_id, out[i])],
                [i \in 1..Len(inc) |-> relationship("from_table", inc[i].from_id, inc[i])])>>

\* sorted(rows, key=...) on keys that are pairs of strings: the sort is
\* stable, so a row goes after the rows of smaller key and after the earlier
\* rows of equal key.
PairLess(k, l) == StrLess(k[1], l[1]) \/ (k[1] = l[1] /\ StrLess(k[2], l[2]))

sorted(rows, keys) ==
    LET before(i) == {j \in 1..Len(rows) : PairLess(keys[j], keys[i]) \/ (keys[j] = keys[i] /\ j < i)}
    IN [p \in 1..Len(rows) |-> rows[CHOOSE i \in 1..Len(rows) : Cardinality(before(i)) = p - 1]]

\* list_tables: the table nodes by id.
list_tables(ns) ==
    LET tables == get_nodes_by_type(ns, "table")
        by_id == sorted(tables, [i \in 1..Len(tables) |-> <<tables[i].id, <<>>>>])
    IN [i \in 1..Len(by_id) |->
          [name |-> by_id[i].id,
           schema |-> Get(by_id[i].data, "schema", <<>>),
           table |-> Get(by_id[i].data, "name", <<>>),
           pk |-> Get(by_id[i].data, "primary_key", <<>>)]]

\* list_relationships: the fk edges by (from_id, to_id).
list_relationships(es) ==
    LET fk == get_edges_by_type(es, "fk")
        by_ends == sorted(fk, [i \in 1..Len(fk) |-> <<fk[i].from_id, fk[i].to_id>>])
    IN [i \in 1..Len(by_ends) |-> relationship("to_table", by_ends[i].to_id, by_ends[i])
                                   @@ [from_table |-> by_ends[i].from_id]]

(***************************************************************************)
(* Inputs.  The tables, columns and primary keys are those of the setUp of *)
(* tests/test_core.py, with a second Orders table in another schema.       *)
(***************************************************************************)
dbo == <<"d", "b", "o">>

sales == <<"s", "a", "l", "e", "s">>

Users == <<"U", "s", "e", "r", "s">>

Orders == <<"O", "r", "d", "e", "r", "s">>

Products == <<"P", "r", "o", "d", "u", "c", "t", "s">>

OrderItems == <<"O", "r", "d", "e", "r", "I", "t", "e", "m", "s">>

Id == <<"I", "d">>

Name == <<"N", "a", "m", "e">>

UserId == <<"U", "s", "e", "r", "I", "d">>

OrderId == <<"O", "r", "d", "e", "r", "I", "d">>

ProductId == <<"P", "r", "o", "d", "u", "c", "t", "I", "d">>

dboUsers == Dot(dbo, Users)

dboOrders == Dot(dbo, Orders)

dboProducts == Dot(dbo, Products)

dboOrderItems == Dot(dbo, OrderItems)

salesOrders == Dot(sales, Orders)

TableInfo(schema, name) == [schema |-> schema, name |-> name]

ColumnInfo(table_schema, table_name, name) ==
    [table_schema |-> table_schema, table_name |-> table_name, name |-> name]

PrimaryKeyInfo(table_schema, table_name, constraint_name, columns) ==
    [table_schema |-> table_schema, table_name |-> table_name,
     constraint_name |-> constraint_name, columns |-> columns]

ForeignKeyInfo(constraint_name, from_schema, from_table, from_columns, to_schema, to_table, to_columns) ==
    [constraint_name |-> constraint_name,
     from_schema |-> from_schema, from_table |-> from_table, from_columns |-> from_columns,
     to_schema |-> to_schema, to_table |-> to_table, to_columns |-> to_columns]

RawMetadata(tables, columns, primary_keys, foreign_keys, database_name, server_name) ==
    [tables |-> tables, columns |-> columns, primary_keys |-> primary_keys,
     foreign_keys |-> foreign_keys, database_name |-> database_name,
     server_name |-> server_name]

FK_Orders_Users ==
    ForeignKeyInfo(<<"F", "K", "_", "O", "U">>, dbo, Orders, <<UserId>>, dbo, Users, <<Id>>)

FK_OrderItems_Orders ==
    ForeignKeyInfo(<<"F", "K", "_", "I", "O">>, dbo, OrderItems, <<OrderId>>, dbo, Orders, <<Id>>)

FK_OrderItems_Products ==
    ForeignKeyInfo(<<"F", "K", "_", "I", "P">>, dbo, OrderItems, <<ProductId>>,
                   dbo, Products, <<Id>>)

\* A second, two-column constraint between the ordered pair of FK_Orders_Users.
FK_Orders_Users_2 ==
    ForeignKeyInfo(<<"F", "K", "_", "O", "U", "2">>, dbo, Orders, <<UserId, Id>>,
                   dbo, Users, <<Id, Name>>)

\* The constraint name of FK_Orders_Users again, in the other schema.
FK_SalesOrders_Users ==
    ForeignKeyInfo(<<"F", "K", "_", "O", "U">>, sales, Orders, <<UserId>>, dbo, Users, <<Id>>)

\* A self-referencing constraint.
FK_Users_Users ==
    ForeignKeyInfo(<<"F", "K", "_", "U", "U">>, dbo, Users, <<Name>>, dbo, Users, <<Id>>)

\* A constraint that closes the cycle Users, Orders, OrderItems, Products.
FK_Products_Users ==
    ForeignKeyInfo(<<"F", "K", "_", "P", "U">>, dbo, Products, <<Name>>, dbo, Users, <<Id>>)

TestTables ==
    <<TableInfo(dbo, Users), TableInfo(dbo, Orders), TableInfo(dbo, Products),
      TableInfo(dbo, OrderItems)>>

TestColumns ==
    <<ColumnInfo(dbo, Users, Id), ColumnInfo(dbo, Users, Name),
      ColumnInfo(dbo, Orders, Id), ColumnInfo(dbo, Orders, UserId),
      ColumnInfo(dbo, Products, Id), ColumnInfo(dbo, Products, Name),
      ColumnInfo(dbo, OrderItems, Id), ColumnInfo(dbo, OrderItems, OrderId),
      ColumnInfo(dbo, OrderItems, ProductId)>>

TestPrimaryKeys ==
    <<PrimaryKeyInfo(dbo, Users, <<"P", "K", "_", "U">>, <<Id>>),
      PrimaryKeyInfo(dbo, Orders, <<"P", "K", "_", "O">>, <<Id>>),
      PrimaryKeyInfo(dbo, Products, <<"P", "K", "_", "P">>, <<Id>>),
      PrimaryKeyInfo(dbo, OrderItems, <<"P", "K", "_", "I">>, <<Id>>)>>

TestDb == <<"T", "e", "s", "t", "D", "b">>

localhost == <<"l", "o", "c", "a", "l", "h", "o", "s", "t">>

\* The metadata of TestGraphBuilder.setUp.
TestMetadata ==
    RawMetadata(TestTables, TestColumns, TestPrimaryKeys,
                <<FK_Orders_Users, FK_OrderItems_Orders, FK_OrderItems_Products>>,
                TestDb, localhost)

SalesTables == <<TableInfo(sales, Orders)>>

SalesColumns == <<ColumnInfo(sales, Orders, Id), ColumnInfo(sales, Orders, UserId)>>

SalesPrimaryKeys == <<PrimaryKeyInfo(sales, Orders, <<"P", "K", "_", "O">>, <<Id>>)>>

AllTables == TestTables \o SalesTables

AllColumns == TestColumns \o SalesColumns

AllPrimaryKeys == TestPrimaryKeys \o SalesPrimaryKeys

\* Two constraints between the same ordered pair of tables.
DuplicatePairMetadata ==
    RawMetadata(AllTables, AllColumns, AllPrimaryKeys,
                <<FK_Orders_Users, FK_Orders_Users_2, FK_OrderItems_Orders>>,
                TestDb, localhost)

\* Two constraints of the same name in two schemas.
SameNameMetadata ==
    RawMetadata(AllTables, AllColumns, AllPrimaryKeys,
                <<FK_Orders_Users, FK_SalesOrders_Users, FK_OrderItems_Products>>,
                TestDb, localhost)

\* A cycle and a self-referencing constraint.
CycleMetadata ==
    RawMetadata(AllTables, AllColumns, AllPrimaryKeys,
                <<FK_Users_Users, FK_Orders_Users, FK_OrderItems_Orders,
                  FK_OrderItems_Products, FK_Products_Users>>,
                TestDb, localhost)

\* Two primary-key entries for dbo.Users and none for dbo.Products.
TwoKeysMetadata ==
    RawMetadata(TestTables, TestColumns,
                <<PrimaryKeyInfo(dbo, Users, <<"P", "K", "_", "U">>, <<Id>>),
                  PrimaryKeyInfo(dbo, Users, <<"P", "K", "_", "N">>, <<Name>>),
                  PrimaryKeyInfo(dbo, Orders, <<"P", "K", "_", "O">>, <<Id>>),
                  PrimaryKeyInfo(dbo, OrderItems, <<"P", "K", "_", "I">>, <<Id>>)>>,
                <<FK_Orders_Users, FK_OrderItems_Orders, FK_OrderItems_Products>>,
                TestDb, localhost)

Snapshots == {TestMetadata, DuplicatePairMetadata, SameNameMetadata, CycleMetadata}

\* datetime.now().isoformat()
Timestamps == {<<"t", "0">>}

\* Edges written with add_edge, as the tests of the store write them: any
\* weight, an empty attribute map, an id that may replace an earlier edge.
EdgeInputs ==
    {Edge(<<"e", "1">>, dboUsers, dboProducts, "fk", 5, <<>>),
     Edge(<<"e", "2">>, dboProducts, dboOrders, "fk", 0, <<>>),
     Edge(<<"e", "3">>, dboOrderItems, dboUsers, "fk", -1, <<>>),
     Edge(<<"e", "4">>, dboUsers, dboOrderItems, "fk_col", 0, <<>>)}

Isolated == <<"I", "s", "o", "l", "a", "t", "e", "d">>

\* Nodes written with add_node: the isolated table of test_path_not_found.
NodeInputs == {Node(Dot(dbo, Isolated), "table", [schema |-> dbo, name |-> Isolated])}

orders == Lower(Orders)

NoSuchTable == <<"N", "o", "S", "u", "c", "h", "T", "a", "b", "l", "e">>

\* The names find_path is asked about: ids, a short name in lower case that
\* two schemas share, and a name of nothing.
PathNames == {dboUsers, dboProducts, salesOrders, orders, NoSuchTable}

JoinNames == {dboUsers, orders, dboOrderItems}

MaxJoinTables == 2

\* Every list of up to MaxJoinTables names, the three tables of
\* test_generate_multi_join, and a list whose stitched path turns back.
JoinLists ==
    UNION {[1..n -> JoinNames] : n \in 0..MaxJoinTables}
    \cup {<<dboUsers, dboOrders, dboOrderItems>>, <<dboUsers, dboOrderItems, orders>>}

\* generate_join's select_all is True unless the caller says otherwise.
JoinInputs ==
    {<<tables, TRUE>> : tables \in JoinLists}
    \cup {<<tables, FALSE>> : tables \in {<<dboUsers, orders>>}}

\* The lists find_multi_path is asked about: those of generate_join, lists
\* with names of nothing, and lists that pass a table of the other schema.
MultiLists ==
    JoinLists
    \cup {<<NoSuchTable>>, <<dboUsers, NoSuchTable>>, <<NoSuchTable, dboUsers, salesOrders>>,
          <<dboUsers, salesOrders>>, <<dboUsers, dboOrders, salesOrders>>}

\* The calls made on the store alone (TestGraphStorage): nodes that replace
\* a built node with another attribute map or another type, edges that
\* replace one another, lists that carry an id twice, metadata rewritten.
StoreNodes ==
    {Node(dboUsers, "table", [schema |-> dbo, name |-> Users]),
     Node(dboUsers, "column", [name |-> Id]),
     Node(Dot(dbo, Isolated), "table", <<>>)}

StoreNodeLists ==
    {<<Node(dboUsers, "column", [name |-> Id]), Node(dboUsers, "table", [schema |-> dbo, name |-> Users])>>,
     <<Node(dboUsers, "table", [schema |-> dbo, name |-> Users]), Node(Dot(dbo, Isolated), "table", <<>>),
       Node(dboUsers, "column", [name |-> Id])>>}

StoreEdges ==
    {Edge(<<"e", "1">>, dboUsers, dboProducts, "fk", 5, <<>>),
     Edge(<<"e", "1">>, dboProducts, dboUsers, "fk_col", 1, [constraint_name |-> <<"F", "K">>]),
     Edge(fk_edge(FK_Orders_Users).id, dboOrders, dboUsers, "fk", 2, <<>>)}

StoreEdgeLists ==
    {<<Edge(<<"e", "1">>, dboUsers, dboProducts, "fk", 5, <<>>),
       Edge(<<"e", "1">>, dboProducts, dboUsers, "fk_col", 1, [constraint_name |-> <<"F", "K">>])>>,
     <<Edge(fk_edge(FK_Orders_Users).id, dboOrders, dboUsers, "fk", 2, <<>>),
       Edge(<<"e", "1">>, dboUsers, dboProducts, "fk", 5, <<>>)>>}

StoreMetadata ==
    {<<"version", <<"2", ".", "0">>>>, <<"version", <<>>>>, <<"owner", TestDb>>}

StoreNodeIds == {dboUsers, Dot(dbo, Isolated), NoSuchTable}

StoreEdgeIds == {<<"e", "1">>, fk_edge(FK_Orders_Users).id, <<"e", "9">>}

StoreKeys == {"version", "owner", "nonexistent"}

MaxStoreWrites == 2

MaxWrites == 1

\* The table ids of the alias lists: tables that share a first letter, two
\* that share their whole short name, and one whose name is a single letter.
AliasTables == {dboUsers, dboOrders, salesOrders, dboOrderItems, <<"O">>}

MaxAliasTables == 3

AliasLists == UNION {[1..n -> AliasTables] : n \in 0..MaxAliasTables}

(***************************************************************************)
(* The state: the three tables of the store, the adjacency index of the    *)
(* one engine, the number of writing calls made, and the call that has     *)
(* returned and whose result the caller holds (<<>> when there is none).   *)
(***************************************************************************)
VARIABLES nodes, edges, metadata, adjacency, writes, result

vars == <<nodes, edges, metadata, adjacency, writes, result>>

Call(op, args, ret) == [op |-> op, args |-> args, ret |-> ret]

\* The stores an earlier run may have left in the database file.
PersistedStores ==
    {EmptyStore}
    \cup {build_store(EmptyStore, m, TRUE, now) : m \in Snapshots, now \in Timestamps}

\* GraphStorage.__init__ on the file, then QueryEngine.__init__ on the store.
Init ==
    \E store \in PersistedStores :
        /\ nodes = store.nodes
        /\ edges = store.edges
        /\ metadata = store.metadata
        /\ adjacency = build_adjacency(store.edges)
        /\ writes = 0
        /\ result = <<>>

Idle == result = <<>>

CanWrite == Idle /\ writes < MaxWrites

\* GraphBuilder.build
Build(m, clear_existing, now) ==
    /\ CanWrite
    /\ LET store == build_store([nodes |-> nodes, edges |-> edges, metadata |-> metadata],
                                m, clear_existing, now)
       IN /\ nodes' = store.nodes
          /\ edges' = store.edges
          /\ metadata' = store.metadata
    /\ writes' = writes + 1
    /\ result' = <<Call("build", <<m, clear_existing>>, build_stats(m))>>
    /\ UNCHANGED adjacency

\* GraphStorage.add_node
AddNode(node) ==
    /\ CanWrite
    /\ nodes' = add_node(nodes, node)
    /\ writes' = writes + 1
    /\ UNCHANGED <<edges, metadata, adjacency, result>>

\* GraphStorage.add_edge
AddEdge(edge) ==
    /\ CanWrite
    /\ edges' = add_edge(edges, edge)
    /\ writes' = writes + 1
    /\ UNCHANGED <<nodes, metadata, adjacency, result>>

\* GraphStorage.clear
Clear ==
    /\ CanWrite
    /\ nodes' = EmptyStore.nodes
    /\ edges' = EmptyStore.edges
    /\ metadata' = EmptyStore.metadata
    /\ writes' = writes + 1
    /\ UNCHANGED <<adjacency, result>>

\* QueryEngine.refresh
Refresh ==
    /\ Idle
    /\ adjacency' = build_adjacency(edges)
    /\ result' = <<Call("refresh", <<>>, <<>>)>>
    /\ UNCHANGED <<nodes, edges, metadata, writes>>

\* QueryEngine.find_path
FindPath(from_table, to_table) ==
    /\ Idle
    /\ result' = <<Call("find_path", <<from_table, to_table>>,
                        find_path(nodes, adjacency, from_table, to_table))>>
    /\ UNCHANGED <<nodes, edges, metadata, adjacency, writes>>

\* QueryEngine.generate_join
GenerateJoin(tables, select_all) ==
    /\ Idle
    /\ result' = <<Call("generate_join", <<tables, select_all>>,
                        generate_join(nodes, adjacency, tables, select_all))>>
    /\ UNCHANGED <<nodes, edges, metadata, adjacency, writes>>

\* _generate_aliases(tables), as generate_join calls it on a path.
GenerateAliases(tables) ==
    /\ Idle
    /\ result' = <<Call("generate_aliases", <<tables>>, generate_aliases(tables))>>
    /\ UNCHANGED <<nodes, edges, metadata, adjacency, writes>>

\* QueryEngine._resolve_table_name
ResolveTableName(table_name) ==
    /\ Idle
    /\ result' = <<Call("resolve_table_name", <<table_name>>,
                        resolve_table_name(nodes, table_name))>>
    /\ UNCHANGED <<nodes, edges, metadata, adjacency, writes>>

\* QueryEngine.find_multi_path
FindMultiPath(tables) ==
    /\ Idle
    /\ result' = <<Call("find_multi_path", <<tables>>,
                        find_multi_path(nodes, adjacency, tables))>>
    /\ UNCHANGED <<nodes, edges, metadata, adjacency, writes>>

\* An explain_table that rebuilds the index before it answers.
ExplainTableRefreshing(table_name) ==
    /\ Idle
    /\ adjacency' = build_adjacency(edges)
    /\ result' = <<Call("explain_table", <<table_name>>,
                        explain_table(nodes, edges, table_name))>>
    /\ UNCHANGED <<nodes, edges, metadata, writes>>

\* QueryEngine.explain_table
ExplainTable(table_name) ==
    /\ Idle
    /\ result' = <<Call("explain_table", <<table_name>>,
                        explain_table(nodes, edges, table_name))>>
    /\ UNCHANGED <<nodes, edges, metadata, adjacency, writes>>

\* The caller takes the result of the call that returned.
Return ==
    /\ ~Idle
    /\ result' = <<>>
    /\ UNCHANGED <<nodes, edges, metadata, adjacency, writes>>

Next ==
    \/ \E m \in Snapshots, clear_existing \in BOOLEAN, now \in Timestamps :
           Build(m, clear_existing, now)
    \/ \E node \in NodeInputs : AddNode(node)
    \/ \E edge \in EdgeInputs : AddEdge(edge)
    \/ Clear
    \/ Refresh
    \/ \E from_table \in PathNames, to_table \in PathNames : FindPath(from_table, to_table)
    \/ \E input \in JoinInputs : GenerateJoin(input[1], input[2])
    \/ Return

Spec == Init /\ [][Next]_vars

\* Alias assignment alone, over every list of AliasLists.
NextAliases ==
    \/ \E tables \in AliasLists : GenerateAliases(tables)
    \/ Return

SpecAliases == Init /\ [][NextAliases]_vars

\* The other queries of the engine, over the same writes.
NextQueries ==
    \/ \E m \in Snapshots, clear_existing \in BOOLEAN, now \in Timestamps :
           Build(m, clear_existing, now)
    \/ \E node \in NodeInputs : AddNode(node)
    \/ \E edge \in EdgeInputs : AddEdge(edge)
    \/ Clear
    \/ Refresh
    \/ \E table_name \in PathNames : ResolveTableName(table_name)
    \/ \E tables \in MultiLists : FindMultiPath(tables)
    \/ \E table_name \in PathNames : ExplainTable(table_name)
    \/ Return

SpecQueries == Init /\ [][NextQueries]_vars

(***************************************************************************)
(* The store alone: every call of GraphStorage that writes or looks up by  *)
(* id or key, on a new database file or on the file a build left.          *)
(***************************************************************************)
InitStore ==
    \E store \in {EmptyStore, build_store(EmptyStore, TestMetadata, TRUE, <<"t", "0">>)} :
        /\ nodes = store.nodes
        /\ edges = store.edges
        /\ metadata = store.metadata
        /\ adjacency = build_adjacency(store.edges)
        /\ writes = 0
        /\ result = <<>>

CanWriteStore == Idle /\ writes < MaxStoreWrites

StoreAddNode(node) ==
    /\ CanWriteStore
    /\ nodes' = add_node(nodes, node)
    /\ writes' = writes + 1
    /\ result' = <<Call("add_node", <<node>>, <<>>)>>
    /\ UNCHANGED <<edges, metadata, adjacency>>

StoreAddNodes(list) ==
    /\ CanWriteStore
    /\ nodes' = add_nodes(nodes, list)
    /\ writes' = writes + 1
    /\ result' = <<Call("add_nodes", <<list>>, <<>>)>>
    /\ UNCHANGED <<edges, metadata, adjacency>>

StoreAddEdge(edge) ==
    /\ CanWriteStore
    /\ edges' = add_edge(edges, edge)
    /\ writes' = writes + 1
    /\ result' = <<Call("add_edge", <<edge>>, <<>>)>>
    /\ UNCHANGED <<nodes, metadata, adjacency>>

StoreAddEdges(list) ==
    /\ CanWriteStore
    /\ edges' = add_edges(edges, list)
    /\ writes' = writes + 1
    /\ result' = <<Call("add_edges", <<list>>, <<>>)>>
    /\ UNCHANGED <<nodes, metadata, adjacency>>

StoreSetMetadata(key, value) ==
    /\ CanWriteStore
    /\ metadata' = set_metadata(metadata, key, value)
    /\ writes' = writes + 1
    /\ result' = <<Call("set_metadata", <<key, value>>, <<>>)>>
    /\ UNCHANGED <<nodes, edges, adjacency>>

StoreClear ==
    /\ CanWriteStore
    /\ nodes' = EmptyStore.nodes
    /\ edges' = EmptyStore.edges
    /\ metadata' = EmptyStore.metadata
    /\ writes' = writes + 1
    /\ result' = <<Call("clear", <<>>, <<>>)>>
    /\ UNCHANGED adjacency

GetNode(node_id) ==
    /\ Idle
    /\ result' = <<Call("get_node", <<node_id>>, get_node(nodes, node_id))>>
    /\ UNCHANGED <<nodes, edges, metadata, adjacency, writes>>

GetEdge(edge_id) ==
    /\ Idle
    /\ result' = <<Call("get_edge", <<edge_id>>, get_edge(edges, edge_id))>>
    /\ UNCHANGED <<nodes, edges, metadata, adjacency, writes>>

GetMetadata(key) ==
    /\ Idle
    /\ result' = <<Call("get_metadata", <<key>>, get_metadata(metadata, key))>>
    /\ UNCHANGED <<nodes, edges, metadata, adjacency, writes>>

GetStats ==
    /\ Idle
    /\ result' = <<Call("get_stats", <<>>, get_stats(nodes, edges))>>
    /\ UNCHANGED <<nodes, edges, metadata, adjacency, writes>>

NextStore ==
    \/ \E node \in StoreNodes : StoreAddNode(node)
    \/ \E list \in StoreNodeLists : StoreAddNodes(list)
    \/ \E edge \in StoreEdges : StoreAddEdge(edge)
    \/ \E list \in StoreEdgeLists : StoreAddEdges(list)
    \/ \E kv \in StoreMetadata : StoreSetMetadata(kv[1], kv[2])
    \/ StoreClear
    \/ \E node_id \in StoreNodeIds : GetNode(node_id)
    \/ \E edge_id \in StoreEdgeIds : GetEdge(edge_id)
    \/ \E key \in StoreKeys : GetMetadata(key)
    \/ GetStats
    \/ Return

SpecStore == InitStore /\ [][NextStore]_vars

\* QueryEngine.list_tables
ListTables ==
    /\ Idle
    /\ result' = <<Call("list_tables", <<>>, list_tables(nodes))>>
    /\ UNCHANGED <<nodes, edges, metadata, adjacency, writes>>

\* QueryEngine.list_relationships
ListRelationships ==
    /\ Idle
    /\ result' = <<Call("list_relationships", <<>>, list_relationships(edges))>>
    /\ UNCHANGED <<nodes, edges, metadata, adjacency, writes>>

\* Every operation of the engine beside the writes of the store, the lists
\* being three tables long: a route that turns back, a table that nothing
\* reaches, a table named twice and a name of nothing.
NextEngine ==
    \/ \E m \in Snapshots, clear_existing \in BOOLEAN, now \in Timestamps :
           Build(m, clear_existing, now)
    \/ \E node \in NodeInputs : AddNode(node)
    \/ \E edge \in EdgeInputs : AddEdge(edge)
    \/ Clear
    \/ Refresh
    \/ \E from_table \in PathNames, to_table \in PathNames : FindPath(from_table, to_table)
    \/ \E tables \in {<<dboUsers, dboOrderItems, orders>>, <<dboUsers, dboOrders, salesOrders>>,
                       <<dboProducts, dboUsers, dboProducts>>, <<dboUsers, NoSuchTable, orders>>} :
           \/ FindMultiPath(tables)
           \/ GenerateJoin(tables, TRUE)
    \/ \E table_name \in {dboUsers, orders, NoSuchTable} : ExplainTable(table_name)
    \/ ListTables
    \/ ListRelationships
    \/ Return

SpecEngine == Init /\ [][NextEngine]_vars

\* The builder alone, over every snapshot and the one with two keys.
NextBuild ==
    \/ \E m \in Snapshots \cup {TwoKeysMetadata}, clear_existing \in BOOLEAN, now \in Timestamps :
           Build(m, clear_existing, now)
    \/ Clear
    \/ Refresh
    \/ Return

SpecBuild == Init /\ [][NextBuild]_vars

(***************************************************************************)
(* Two builds on one store, call by call.  result holds the builds that    *)
(* have been called: at is the next call of build_calls, held the node     *)
(* _mark_column_as_fk has read, ret the statistics once the build has      *)
(* returned, overlapped whether another build was running meanwhile.       *)
(***************************************************************************)
Building(m, now, overlapped) ==
    [op |-> "build", args |-> <<m, TRUE>>, ret |-> <<>>, now |-> now, at |-> 1,
     held |-> <<>>, overlapped |-> overlapped]

\* A caller calls build(m) while at most one other build, of another
\* snapshot, has been called.
StartBuild(m, now) ==
    /\ Len(result) <= 1
    /\ \A b \in 1..Len(result) : result[b].args[1] # m
    /\ LET running == \E b \in 1..Len(result) : result[b].ret = <<>>
       IN result' = [b \in 1..Len(result) |-> [result[b] EXCEPT !.overlapped = @ \/ running]]
                    \o <<Building(m, now, running)>>
    /\ UNCHANGED <<nodes, edges, metadata, adjacency, writes>>

\* Build b makes its next call on the store; after the last one it returns.
StepBuild(b) ==
    /\ b \in 1..Len(result)
    /\ result[b].ret = <<>>
    /\ LET r == result[b]
           calls == build_calls(r.args[1], r.now)
           c == calls[r.at]
           found == IF c.call = "get_node" THEN get_node(nodes, c.id) ELSE <<>>
           next == IF c.call = "get_node" /\ found = <<>> THEN r.at + 2 ELSE r.at + 1
           store == build_call([nodes |-> nodes, edges |-> edges, metadata |-> metadata],
                               c, r.held)
       IN /\ nodes' = store.nodes
          /\ edges' = store.edges
          /\ metadata' = store.metadata
          /\ result' = [result EXCEPT ![b] =
                           [r EXCEPT !.at = next,
                                     !.held = found,
                                     !.ret = IF next > Len(calls)
                                             THEN <<build_stats(r.args[1])>> ELSE <<>>]]
    /\ UNCHANGED <<adjacency, writes>>

\* The snapshots the two callers build.
InterleavedSnapshots == {TestMetadata, CycleMetadata}

NextInterleaved ==
    \/ \E m \in InterleavedSnapshots, now \in Timestamps : StartBuild(m, now)
    \/ \E b \in {1, 2} : StepBuild(b)

SpecInterleaved == Init /\ [][NextInterleaved]_vars

(***************************************************************************)
(* find_path and _generate_aliases one loop iteration at a time, on an     *)
(* index with a cycle, a self-referencing edge, parallel edges and a       *)
(* zero-weight edge.  While a call runs, result holds its local variables. *)
(***************************************************************************)
SearchEdges ==
    <<Edge(<<"c", "1">>, dboUsers, dboOrders, "fk", 3, <<>>),
      Edge(<<"c", "2">>, dboOrders, dboProducts, "fk", 0, <<>>),
      Edge(<<"c", "3">>, dboProducts, dboUsers, "fk", 1, <<>>),
      Edge(<<"s", "1">>, dboUsers, dboUsers, "fk", 1, <<>>),
      Edge(<<"p", "1">>, dboUsers, dboOrders, "fk", 5, <<>>),
      Edge(<<"n", "1">>, dboOrders, dboUsers, "fk", -1, <<>>)>>

SearchNames == {dboUsers, dboOrders, dboProducts, dboOrderItems, NoSuchTable}

\* Table lists whose aliases reach the prefixes and the numbers, one with a
\* table twice, and the empty list.
SearchAliasLists ==
    {<<>>, <<dboUsers, dboOrders, dboOrderItems>>, <<dboOrders, salesOrders, dboOrderItems>>,
     <<<<"O">>, <<"O">>, dboOrders, <<"O">>>>, <<dboUsers, dboUsers>>}

\* The tables of the test snapshot and the first edges of SearchEdges.
InitSearch ==
    \E n \in 0..Len(SearchEdges) :
        /\ nodes = build_store(EmptyStore, TestMetadata, TRUE, <<>>).nodes
        /\ edges = SubSeq(SearchEdges, 1, n)
        /\ metadata = <<>>
        /\ adjacency = build_adjacency(SubSeq(SearchEdges, 1, n))
        /\ writes = 0
        /\ result = <<>>

\* find_path up to its while loop: the early returns, or the first heap.
StartSearch(from_name, to_name) ==
    /\ Idle
    /\ LET from_table == resolve_table_name(nodes, from_name)
           to_table == resolve_table_name(nodes, to_name)
       IN result' =
            IF from_table = <<>> \/ to_table = <<>> \/ from_table = to_table
            THEN <<Call("find_path", <<from_name, to_name>>,
                        find_path(nodes, adjacency, from_name, to_name))>>
            ELSE <<[op |-> "searching", args |-> <<from_name, to_name>>, ret |-> <<>>,
                    from_table |-> from_table[1], to_table |-> to_table[1],
                    st |-> [distances |-> (from_table[1] :> 0), previous |-> <<>>,
                            heap |-> {<<0, from_table[1]>>}, visited |-> {},
                            expanded |-> <<>>]]>>
    /\ UNCHANGED <<nodes, edges, metadata, adjacency, writes>>

Searching == result # <<>> /\ result[1].op = "searching"

\* One iteration of the while loop: it runs while the heap is not empty and
\* the target has not been expanded (the break).
SearchStep ==
    /\ Searching
    /\ result[1].st.heap # {}
    /\ result[1].to_table \notin result[1].st.visited
    /\ result' = <<[result[1] EXCEPT !.st = search_step(adjacency, result[1].to_table, @)]>>
    /\ UNCHANGED <<nodes, edges, metadata, adjacency, writes>>

\* After the loop: the path is walked back and find_path returns.
SearchEnd ==
    /\ Searching
    /\ result[1].st.heap = {} \/ result[1].to_table \in result[1].st.visited
    /\ LET r == result[1]
           back == walk_back(r.st.previous, r.to_table)
           path == Reverse(Append(back.path, r.from_table))
           path_edges == Reverse(back.edges)
       IN result' = <<Call("find_path", r.args,
                           IF r.to_table \notin DOMAIN r.st.previous /\ r.from_table # r.to_table
                           THEN PathResult(FALSE, <<>>, <<>>, 0,
                                           <<"No path found between ", r.from_table, r.to_table>>)
                           ELSE PathResult(TRUE, path, path_edges,
                                           Get(r.st.distances, r.to_table, 0),
                                           explain_path(path, path_edges)))>>
    /\ UNCHANGED <<nodes, edges, metadata, adjacency, writes>>

\* _generate_aliases up to its for loop.
StartAliases(tables) ==
    /\ Idle
    /\ result' = <<[op |-> "assigning", args |-> <<tables>>, ret |-> <<>>, i |-> 1,
                    counter |-> 0, alias |-> <<>>, aliases |-> <<>>, used |-> {}]>>
    /\ UNCHANGED <<nodes, edges, metadata, adjacency, writes>>

Assigning == result # <<>> /\ result[1].op = "assigning"

\* One step of _generate_aliases: the first candidate of the next table, one
\* iteration of the while loop, the assignment that ends it, or the return.
AliasStep ==
    /\ Assigning
    /\ LET r == result[1]
           tables == r.args[1]
           name == AfterLastDot(tables[r.i])
           base == Lower(Prefix(name, 1))
       IN result' =
            IF r.i > Len(tables) THEN <<Call("generate_aliases", r.args, r.aliases)>>
            ELSE IF r.counter = 0 THEN <<[r EXCEPT !.counter = 1, !.alias = base]>>
            ELSE IF r.alias \in r.used
            THEN <<[r EXCEPT !.counter = @ + 1,
                             !.alias = IF r.counter + 1 <= Len(name)
                                       THEN Lower(Prefix(name, r.counter + 1))
                                       ELSE base \o IntToStr(r.counter + 1 - Len(name))]>>
            ELSE <<[r EXCEPT !.aliases = Merge(@, tables[r.i] :> r.alias),
                             !.used = @ \cup {r.alias},
                             !.i = @ + 1, !.counter = 0, !.alias = <<>>]>>
    /\ UNCHANGED <<nodes, edges, metadata, adjacency, writes>>

NextSearch ==
    \/ \E from_name \in SearchNames, to_name \in SearchNames : StartSearch(from_name, to_name)
    \/ SearchStep
    \/ SearchEnd
    \/ \E tables \in SearchAliasLists : StartAliases(tables)
    \/ AliasStep
    \/ (~Searching /\ ~Assigning /\ Return)

SpecSearch == InitSearch /\ [][NextSearch]_vars

\* A call that has started goes on to its next step: the loops run in the
\* caller's thread and nothing suspends them.
FairSearch == SpecSearch /\ WF_vars(SearchStep) /\ WF_vars(SearchEnd) /\ WF_vars(AliasStep)

(***************************************************************************)
(* Properties                                                              *)
(***************************************************************************)
\* The call whose result the caller holds is a call of op.
Returned(op) == result # <<>> /\ result[1].op = op

\* The entries of the adjacency index, each with its key and its place in the key's list.
AdjacencyEntries(adj) ==
    UNION {{[key |-> k, at |-> i, neighbor |-> adj[k][i][1], edge |-> adj[k][i][2]] :
               i \in 1..Len(adj[k])} : k \in DOMAIN adj}

NonNegativeWeights(adj) == \A x \in AdjacencyEntries(adj) : x.edge.weight >= 0

\* The weights of the simple paths of the adjacency index from u to target
\* that avoid the nodes of seen.
RECURSIVE SimplePathWeights(_, _, _, _)
SimplePathWeights(adj, u, target, seen) ==
    IF u = target THEN {0}
    ELSE UNION {{x[2].weight + w :
                    w \in SimplePathWeights(adj, x[1], target, seen \cup {x[1]})} :
                x \in {y \in SeqToSet(Get(adj, u, <<>>)) : y[1] \notin seen}}

Minimum(S) == CHOOSE m \in S : \A n \in S : m <= n

\* The store and the index of the scenario: the graph of the tests' setUp, freshly indexed.
ScenarioStore == build_store(EmptyStore, TestMetadata, TRUE, <<"t", "0">>)

InScenario ==
    /\ nodes = ScenarioStore.nodes
    /\ edges = ScenarioStore.edges
    /\ adjacency = build_adjacency(edges)

\* C1: over non-negative weights, find_path between two resolvable, distinct
\* tables finds a path exactly when the target is reachable in the adjacency
\* index, and its total_weight is then the least weight of any path; in the
\* scenario find_path(Users, Products) has 4 nodes, passes Orders and
\* OrderItems and weighs 3.
C1_ShortestPath ==
    Returned("find_path") =>
        LET args == result[1].args
            ret == result[1].ret
            a == resolve_table_name(nodes, args[1])
            b == resolve_table_name(nodes, args[2])
            weights == SimplePathWeights(adjacency, a[1], b[1], {a[1]})
        IN /\ (a # <<>> /\ b # <<>> /\ a # b /\ NonNegativeWeights(adjacency)) =>
                /\ ret.found <=> weights # {}
                /\ ret.found => ret.total_weight = Minimum(weights)
           /\ (InScenario /\ args = <<dboUsers, dboProducts>>) =>
                /\ ret.found
                /\ Len(ret.path) = 4
                /\ dboOrders \in SeqToSet(ret.path)
                /\ dboOrderItems \in SeqToSet(ret.path)
                /\ ret.total_weight = 3

\* C1's case: a path of three edges is returned although one edge, of a
\* greater weight, joins the two tables directly.
C1_Witness ==
    /\ Returned("find_path")
    /\ result[1].ret.found
    /\ Len(result[1].ret.path) = 4
    /\ result[1].ret.total_weight = 3
    /\ NonNegativeWeights(adjacency)
    /\ \E x \in AdjacencyEntries(adjacency) :
          /\ x.key = result[1].ret.path[1]
          /\ x.neighbor = result[1].ret.path[4]
          /\ x.edge.weight > 3

\* The two qualified columns an ON condition equates.
Sides(c) == {<<c.lhs_alias, c.lhs_column>>, <<c.rhs_alias, c.rhs_column>>}

\* C2: in every ON condition of a successful generate_join, column k of the
\* edge's from_columns is qualified with the alias of the edge's original
\* from table and column k of its to_columns with the alias of its original
\* to table; on a forward edge the condition reads
\* <alias of path[i+1]>.<to_columns[k]> = <alias of path[i]>.<from_columns[k]>.
C2_ColumnsThroughOwningAlias ==
    (Returned("generate_join") /\ result[1].ret.success) =>
        LET ret == result[1].ret
            traversed == find_multi_path(nodes, adjacency, result[1].args[1]).edges
        IN \A i \in 1..Len(ret.joins) :
              LET join == ret.joins[i]
                  edge == traversed[i]
                  is_reverse == Get(edge.data, "reverse", FALSE)
                  original_from_alias == IF is_reverse THEN join.to_alias ELSE join.from_alias
                  original_to_alias == IF is_reverse THEN join.from_alias ELSE join.to_alias
              IN /\ Len(join.on_conditions) = Len(edge.data.from_columns)
                 /\ \A k \in 1..Len(join.on_conditions) :
                       /\ Sides(join.on_conditions[k]) =
                             {<<original_from_alias, edge.data.from_columns[k]>>,
                              <<original_to_alias, edge.data.to_columns[k]>>}
                       /\ ~is_reverse =>
                             join.on_conditions[k] =
                                Condition(join.to_alias, edge.data.to_columns[k],
                                          join.from_alias, edge.data.from_columns[k])

\* The ids of the source columns of the column pairs of the foreign keys.
FkSourceColumns(foreign_keys) ==
    UNION {{Dot(from_full_name(foreign_keys[j]), foreign_keys[j].from_columns[k]) :
               k \in 1..Len(Zip(foreign_keys[j].from_columns, foreign_keys[j].to_columns))} :
           j \in 1..Len(foreign_keys)}

\* C3: after build a column node of the store has is_fk = true exactly when
\* it is the source column of a column pair of an input foreign key.
C3_IsFkMarksSourceColumns ==
    Returned("build") =>
        \A i \in 1..Len(nodes) :
            nodes[i].type = "column" =>
                (nodes[i].data.is_fk <=>
                    nodes[i].id \in FkSourceColumns(result[1].args[1].foreign_keys))

TablePair(fk) == <<from_full_name(fk), to_full_name(fk)>>

\* The first constraint of the list between the ordered pair of tables.
FirstConstraint(foreign_keys, pair) ==
    foreign_keys[Minimum({j \in 1..Len(foreign_keys) : TablePair(foreign_keys[j]) = pair})]

\* C6: after build the store holds exactly one fk edge for each distinct
\* ordered pair of tables of the input foreign keys, and it carries the
\* constraint name and the column lists of the first constraint of the pair.
C6_OneFkEdgePerTablePair ==
    Returned("build") =>
        LET foreign_keys == result[1].args[1].foreign_keys
        IN \A j \in 1..Len(foreign_keys) :
              LET pair == TablePair(foreign_keys[j])
                  first == FirstConstraint(foreign_keys, pair)
                  held == {i \in 1..Len(edges) :
                              /\ edges[i].type = "fk"
                              /\ <<edges[i].from_id, edges[i].to_id>> = pair}
              IN /\ Cardinality(held) = 1
                 /\ \A i \in held :
                       /\ edges[i].data.constraint_name = first.constraint_name
                       /\ edges[i].data.from_columns = first.from_columns
                       /\ edges[i].data.to_columns = first.to_columns

\* C7: after build the store holds one fk_col edge per column pair of every
\* input foreign key, from the source column id to the target column id.
C7_OneFkColEdgePerColumnPair ==
    Returned("build") =>
        LET foreign_keys == result[1].args[1].foreign_keys
        IN \A j \in 1..Len(foreign_keys) :
              \A k \in 1..Len(Zip(foreign_keys[j].from_columns, foreign_keys[j].to_columns)) :
                  Cardinality({i \in 1..Len(edges) :
                      /\ edges[i].type = "fk_col"
                      /\ edges[i].data.constraint_name = foreign_keys[j].constraint_name
                      /\ edges[i].from_id = Dot(from_full_name(foreign_keys[j]),
                                                foreign_keys[j].from_columns[k])
                      /\ edges[i].to_id = Dot(to_full_name(foreign_keys[j]),
                                              foreign_keys[j].to_columns[k])}) = 1

\* The clauses of the SQL text that are JOIN clauses, by position.
JoinClauses(sql) == {j \in 1..Len(sql) : sql[j].kw = "JOIN"}

\* C4: the SQL of a successful generate_join over a path of k tables has
\* exactly k-1 JOIN clauses, one per traversed edge in path order, and every
\* alias in the ON clause of a JOIN is introduced by the FROM clause, by an
\* earlier JOIN clause or by that JOIN clause.
C4_JoinsFollowPath ==
    (Returned("generate_join") /\ result[1].ret.success) =>
        LET ret == result[1].ret
            sql == ret.sql
            k == Len(ret.tables)
            traversed == find_multi_path(nodes, adjacency, result[1].args[1]).edges
        IN /\ Cardinality(JoinClauses(sql)) = k - 1
           /\ Len(traversed) = k - 1
           /\ \A j \in JoinClauses(sql) :
                 /\ j >= 3
                 /\ sql[2].kw = "FROM"
                 /\ sql[j].table = ret.tables[j - 1]
                 /\ sql[j].table = traversed[j - 2].to_id
                 /\ \A n \in 1..Len(sql[j].on) :
                       {sql[j].on[n].lhs_alias, sql[j].on[n].rhs_alias}
                           \subseteq {sql[m].alias : m \in 2..j}

\* C4's case: a join over three tables, with two JOIN clauses that each have a condition.
C4_Witness ==
    /\ Returned("generate_join")
    /\ result[1].ret.success
    /\ Len(result[1].ret.tables) = 3
    /\ Cardinality(JoinClauses(result[1].ret.sql)) = 2
    /\ \A j \in JoinClauses(result[1].ret.sql) : result[1].ret.sql[j].on # <<>>

\* C5: alias assignment gives no two distinct tables of its list the same alias.
C5_AliasesDistinct ==
    Returned("generate_aliases") =>
        LET tables == result[1].args[1]
            aliases == result[1].ret
        IN /\ DOMAIN aliases = SeqToSet(tables)
           /\ \A t \in DOMAIN aliases : \A u \in DOMAIN aliases :
                 t # u => aliases[t] # aliases[u]

\* C5's case: a list with a repeated table and with two tables of the same
\* short name in different schemas.
C5_Witness ==
    /\ Returned("generate_aliases")
    /\ LET tables == result[1].args[1]
       IN /\ \E i \in 1..Len(tables) : \E j \in 1..Len(tables) :
                i # j /\ tables[i] = tables[j]
          /\ \E i \in 1..Len(tables) : \E j \in 1..Len(tables) :
                /\ tables[i] # tables[j]
                /\ AfterLastDot(tables[i]) = AfterLastDot(tables[j])
          /\ Cardinality(DOMAIN result[1].ret) >= 2

\* The fk edges of the store, by position.
FkEdges == {i \in 1..Len(edges) : edges[i].type = "fk"}

IsForwardEntry(x, e) == x.key = e.from_id /\ x.neighbor = e.to_id /\ x.edge = e

IsReverseEntry(x, e) ==
    /\ x.key = e.to_id
    /\ x.neighbor = e.from_id
    /\ x.edge.from_id = e.to_id
    /\ x.edge.to_id = e.from_id
    /\ x.edge.weight = e.weight
    /\ Get(x.edge.data, "reverse", FALSE) = TRUE

\* C8: when the adjacency index has just been built, on construction or by
\* refresh, it holds for every fk edge of the store a forward entry and a
\* reverse entry of the same weight, marked reverse, and nothing else; the
\* fk_col edges contribute nothing.
C8_AdjacencyMirrorsFkEdges ==
    (Returned("refresh") \/ writes = 0) =>
        LET entries == AdjacencyEntries(adjacency)
        IN /\ \A i \in FkEdges :
                 /\ \E x \in entries : IsForwardEntry(x, edges[i])
                 /\ \E x \in entries : IsReverseEntry(x, edges[i])
           /\ \A x \in entries :
                 \E i \in FkEdges : IsForwardEntry(x, edges[i]) \/ IsReverseEntry(x, edges[i])
           /\ Cardinality(entries) = 2 * Cardinality(FkEdges)

\* C8's case: refresh has rebuilt the index after a write, over a store that
\* holds fk edges and fk_col edges.
C8_Witness ==
    /\ Returned("refresh")
    /\ writes >= 1
    /\ FkEdges # {}
    /\ \E i \in 1..Len(edges) : edges[i].type = "fk_col"
    /\ AdjacencyEntries(adjacency) # {}

\* C9: over non-negative weights, find_path(A, B) and find_path(B, A) of two
\* resolvable tables agree on found and on total_weight.
C9_PathWeightSymmetric ==
    Returned("find_path") =>
        LET args == result[1].args
            ret == result[1].ret
            back == find_path(nodes, adjacency, args[2], args[1])
        IN (/\ resolve_table_name(nodes, args[1]) # <<>>
            /\ resolve_table_name(nodes, args[2]) # <<>>
            /\ NonNegativeWeights(adjacency)) =>
                /\ back.found = ret.found
                /\ back.total_weight = ret.total_weight

\* C9's case: a path found that takes an edge forwards and an edge backwards.
C9_Witness ==
    /\ Returned("find_path")
    /\ result[1].ret.found
    /\ NonNegativeWeights(adjacency)
    /\ \E i \in 1..Len(result[1].ret.edges) : Get(result[1].ret.edges[i].data, "reverse", FALSE)
    /\ \E i \in 1..Len(result[1].ret.edges) : ~Get(result[1].ret.edges[i].data, "reverse", FALSE)
    /\ result[1].ret.total_weight > 0

\* C10: find_path(x, x) of a resolvable name x is found, with the path made
\* of the resolved id of x alone, no edges and total_weight 0.
C10_SameTablePath ==
    Returned("find_path") =>
        LET args == result[1].args
            ret == result[1].ret
            x == resolve_table_name(nodes, args[1])
        IN (args[1] = args[2] /\ x # <<>>) =>
              /\ ret.found
              /\ ret.path = x
              /\ \E i \in 1..Len(nodes) : nodes[i].type = "table" /\ nodes[i].id = ret.path[1]
              /\ ret.edges = <<>>
              /\ ret.total_weight = 0

\* C10's case: x is a table with a self-referencing fk edge in the index.
C10_Witness ==
    /\ Returned("find_path")
    /\ result[1].args[1] = result[1].args[2]
    /\ result[1].ret.found
    /\ \E x \in AdjacencyEntries(adjacency) :
          x.key = result[1].ret.path[1] /\ x.neighbor = result[1].ret.path[1]

\* C11: find_path returns found = false with an empty path, no edges and
\* total_weight 0 whenever a name does not resolve or the two resolved
\* tables are not connected in the adjacency index.
C11_NotFoundResult ==
    Returned("find_path") =>
        LET args == result[1].args
            ret == result[1].ret
            a == resolve_table_name(nodes, args[1])
            b == resolve_table_name(nodes, args[2])
        IN (\/ a = <<>>
            \/ b = <<>>
            \/ (a # b /\ SimplePathWeights(adjacency, a[1], b[1], {a[1]}) = {})) =>
               /\ ~ret.found
               /\ ret.path = <<>>
               /\ ret.edges = <<>>
               /\ ret.total_weight = 0
               /\ ret.explanation # <<>>

\* C11's case: both names resolve, the index is not empty, and one of the
\* two tables is a table node without any fk edge.
C11_Witness ==
    /\ Returned("find_path")
    /\ ~result[1].ret.found
    /\ LET a == resolve_table_name(nodes, result[1].args[1])
           b == resolve_table_name(nodes, result[1].args[2])
       IN /\ a # <<>> /\ b # <<>>
          /\ a[1] \in DOMAIN adjacency
          /\ b[1] \notin DOMAIN adjacency
          /\ \A i \in FkEdges : edges[i].from_id # b[1] /\ edges[i].to_id # b[1]

\* The ids of the table nodes of the store.
TableIds == {nodes[i].id : i \in {j \in 1..Len(nodes) : nodes[j].type = "table"}}

\* The ids of the table nodes whose short name is name, whatever the case.
ShortNameMatches(name) ==
    {nodes[i].id : i \in {j \in 1..Len(nodes) :
        nodes[j].type = "table" /\ Lower(Get(nodes[j].data, "name", <<>>)) = Lower(name)}}

\* The smallest of a set of strings in the order of Python's str.
Smallest(S) == CHOOSE s \in S : \A t \in S : s = t \/ StrLess(s, t)

\* C12: name resolution returns the name itself when it is the id of a table
\* node; otherwise the smallest id, in string order, of the table nodes whose
\* short name matches case-insensitively, in whatever order the nodes were
\* inserted; and not-found when no table node matches.
C12_ResolvesToSmallestId ==
    Returned("resolve_table_name") =>
        LET name == result[1].args[1]
            ret == result[1].ret
        IN IF name \in TableIds THEN ret = <<name>>
           ELSE IF ShortNameMatches(name) # {} THEN ret = <<Smallest(ShortNameMatches(name))>>
           ELSE ret = <<>>

\* The concatenation of a sequence of sequences.
RECURSIVE Flatten(_)
Flatten(ss) == IF ss = <<>> THEN <<>> ELSE Head(ss) \o Flatten(Tail(ss))

\* The names of the list, resolved one by one.
Resolved(tables) == [i \in 1..Len(tables) |-> resolve_table_name(nodes, tables[i])]

AllResolve(tables) == \A i \in 1..Len(tables) : Resolved(tables)[i] # <<>>

\* The find_path results of the first n consecutive pairs of the list.
Segments(tables, n) ==
    [i \in 1..n |-> find_path(nodes, adjacency, Resolved(tables)[i][1],
                              Resolved(tables)[i + 1][1])]

\* The first resolved table followed by the paths of the segments, each
\* without its first node.
Spliced(tables, segments) ==
    <<Resolved(tables)[1][1]>> \o Flatten([i \in 1..Len(segments) |-> Tail(segments[i].path)])

\* C13: when the list has consecutive pairs, every name resolves and every
\* consecutive pair is connected, find_multi_path is found with the paths
\* of the pairs concatenated in input order without the repeated junction
\* nodes, their edge lists concatenated, and the sum of their weights.
C13_MultiPathConcatenates ==
    Returned("find_multi_path") =>
        LET tables == result[1].args[1]
            ret == result[1].ret
            segments == Segments(tables, Len(tables) - 1)
        IN (/\ Len(tables) >= 2
            /\ AllResolve(tables)
            /\ \A i \in 1..Len(segments) : segments[i].found) =>
               /\ ret.found
               /\ ret.path = Spliced(tables, segments)
               /\ ret.edges = Flatten([i \in 1..Len(segments) |-> segments[i].edges])
               /\ ret.total_weight = SumSeq([i \in 1..Len(segments) |-> segments[i].total_weight])

\* C13's case: three names, two connected pairs, a path that passes the
\* junction once and weighs more than either segment.
C13_Witness ==
    /\ Returned("find_multi_path")
    /\ Len(result[1].args[1]) = 3
    /\ result[1].ret.found
    /\ Len(result[1].ret.path) >= 3
    /\ Len(result[1].ret.edges) = Len(result[1].ret.path) - 1
    /\ result[1].ret.total_weight >= 2

\* The names of the list that do not resolve, in input order.
Unresolved(tables) ==
    LET at == SelectSeq([i \in 1..Len(tables) |-> i], LAMBDA i : Resolved(tables)[i] = <<>>)
    IN [k \in 1..Len(at) |-> tables[at[k]]]

NamesTheUnresolved(ret, tables) ==
    /\ ~ret.found
    /\ ret.path = <<>>
    /\ ret.edges = <<>>
    /\ ret.total_weight = 0
    /\ Len(ret.explanation) = 2
    /\ ret.explanation[2] = Unresolved(tables)

\* C14 as stated: if any name of the list does not resolve, find_multi_path
\* is not found with an empty path, no edges, weight 0 and an explanation
\* that names exactly the names that did not resolve.
C14_UnresolvedNamesListed ==
    Returned("find_multi_path") =>
        (Unresolved(result[1].args[1]) # <<>> =>
            NamesTheUnresolved(result[1].ret, result[1].args[1]))

\* C14, for lists of at least two names: if any name does not resolve,
\* find_multi_path is not found with an empty path, no edges, weight 0 and
\* an explanation that names exactly the names that did not resolve, and
\* the result does not depend on the adjacency index.
C14_UnresolvedNamesListedOfTwo ==
    Returned("find_multi_path") =>
        LET tables == result[1].args[1]
        IN (Len(tables) >= 2 /\ Unresolved(tables) # <<>>) =>
              /\ NamesTheUnresolved(result[1].ret, tables)
              /\ result[1].ret = find_multi_path(nodes, <<>>, tables)

\* C14's case: three names on a store with tables, two of them unresolved.
C14_Witness ==
    /\ Returned("find_multi_path")
    /\ Len(result[1].args[1]) = 3
    /\ Len(Unresolved(result[1].args[1])) = 2
    /\ TableIds # {}
    /\ adjacency # <<>>

\* The first consecutive pair of the list that find_path does not connect.
FirstUnreachable(tables) ==
    Minimum({i \in 1..(Len(tables) - 1) : ~Segments(tables, Len(tables) - 1)[i].found})

\* C15: if every name resolves and pair i is the first unreachable pair,
\* find_multi_path is not found with the path, edges and weight accumulated
\* over the pairs before i and an explanation that identifies the pair, and
\* generate_join on the same list fails with empty SQL, no joins and the
\* same explanation.
C15_PartialPathOnUnreachablePair ==
    Returned("find_multi_path") =>
        LET tables == result[1].args[1]
            ret == result[1].ret
            all == Segments(tables, Len(tables) - 1)
        IN (/\ Len(tables) >= 2
            /\ AllResolve(tables)
            /\ \E i \in 1..Len(all) : ~all[i].found) =>
               LET i == FirstUnreachable(tables)
                   before == Segments(tables, i - 1)
                   join == generate_join(nodes, adjacency, tables, TRUE)
               IN /\ ~ret.found
                  /\ ret.path = Spliced(tables, before)
                  /\ ret.edges = Flatten([k \in 1..Len(before) |-> before[k].edges])
                  /\ ret.total_weight = SumSeq([k \in 1..Len(before) |-> before[k].total_weight])
                  /\ Len(ret.explanation) = 3
                  /\ ret.explanation[2] = Resolved(tables)[i][1]
                  /\ ret.explanation[3] = Resolved(tables)[i + 1][1]
                  /\ ~join.success
                  /\ join.sql = <<>>
                  /\ join.joins = <<>>
                  /\ join.explanation = ret.explanation

\* C15's case: the second pair is the first unreachable one, so the result
\* carries the path of the first pair.
C15_Witness ==
    /\ Returned("find_multi_path")
    /\ Len(result[1].args[1]) = 3
    /\ AllResolve(result[1].args[1])
    /\ ~result[1].ret.found
    /\ Len(result[1].ret.path) >= 2
    /\ result[1].ret.edges # <<>>
    /\ result[1].ret.total_weight > 0

\* C16: with fewer than two tables find_multi_path is not found and
\* generate_join fails with empty SQL and no joins, each with a message,
\* and neither result depends on the store or on the index.
C16_FewerThanTwoTables ==
    Returned("find_multi_path") =>
        LET tables == result[1].args[1]
            ret == result[1].ret
            join == generate_join(nodes, adjacency, tables, TRUE)
        IN Len(tables) < 2 =>
              /\ ~ret.found
              /\ ret.explanation # <<>>
              /\ ret = find_multi_path(<<>>, <<>>, tables)
              /\ ~join.success
              /\ join.sql = <<>>
              /\ join.joins = <<>>
              /\ join.explanation # <<>>
              /\ join = generate_join(<<>>, <<>>, tables, TRUE)

\* C16's case: one name, which the store could resolve.
C16_Witness ==
    /\ Returned("find_multi_path")
    /\ Len(result[1].args[1]) = 1
    /\ AllResolve(result[1].args[1])

\* The table at the other end and the constraint of each listed relationship.
Listed(relationships, peer) ==
    {<<relationships[i][peer], relationships[i].constraint>> : i \in 1..Len(relationships)}

\* C17: explain_table returns None exactly when the name does not resolve;
\* otherwise its outgoing relationships are the fk edges whose from_id is
\* the resolved table and its incoming relationships are the fk edges
\* whose to_id is the resolved table, and no other edge is listed.
C17_ExplainTableRelationships ==
    Returned("explain_table") =>
        LET name == result[1].args[1]
            ret == result[1].ret
            resolved == resolve_table_name(nodes, name)
            fk == {edges[i] : i \in {j \in 1..Len(edges) : edges[j].type = "fk"}}
        IN /\ (ret = <<>>) <=> (resolved = <<>>)
           /\ ret # <<>> =>
                /\ Listed(ret[1].outgoing_relationships, "to_table") =
                      {<<e.to_id, Get(e.data, "constraint_name", <<>>)>> :
                          e \in {x \in fk : x.from_id = resolved[1]}}
                /\ Listed(ret[1].incoming_relationships, "from_table") =
                      {<<e.from_id, Get(e.data, "constraint_name", <<>>)>> :
                          e \in {x \in fk : x.to_id = resolved[1]}}
\* The step in which a call op is made: the caller was idle and now holds
\* the call.
Calls(call) == result = <<>> /\ result' = <<call>>

\* The ids and keys a step can tell apart: those asked for and those stored
\* before or after it.
NodeIdsSeen == StoreNodeIds \cup {nodes[i].id : i \in 1..Len(nodes)} \cup {nodes'[i].id : i \in 1..Len(nodes')}

EdgeIdsSeen == StoreEdgeIds \cup {edges[i].id : i \in 1..Len(edges)} \cup {edges'[i].id : i \in 1..Len(edges')}

KeysSeen == StoreKeys \cup DOMAIN metadata \cup DOMAIN metadata'

\* The rows a call writes, in the order it writes them.
Written(call, single, bulk) ==
    IF call.op = single THEN <<call.args[1]>>
    ELSE IF call.op = bulk THEN call.args[1]
    ELSE <<>>

\* The last row of the list under the id.
Latest(rows, id) ==
    LET at == {i \in 1..Len(rows) : rows[i].id = id}
    IN rows[CHOOSE i \in at : \A j \in at : j <= i]

\* What a lookup by id returns after the call, given what it returned before.
LookupAfter(before, written, id, cleared) ==
    IF \E i \in 1..Len(written) : written[i].id = id THEN <<Latest(written, id)>>
    ELSE IF cleared THEN <<>>
    ELSE before

C19_ClearErasesAll ==
    [][\A call \in {result'[i] : i \in 1..Len(result')} :
          (Calls(call) /\ call.op = "clear") =>
             /\ \A id \in NodeIdsSeen : get_node(nodes', id) = <<>>
             /\ \A id \in EdgeIdsSeen : get_edge(edges', id) = <<>>
             /\ \A key \in KeysSeen : get_metadata(metadata', key) = <<>>
             /\ \A type \in {"table", "column"} : get_nodes_by_type(nodes', type) = <<>>
             /\ \A type \in {"fk", "fk_col"} : get_edges_by_type(edges', type) = <<>>
             /\ get_stats(nodes', edges') =
                   [tables |-> 0, columns |-> 0, foreign_keys |-> 0, column_relationships |-> 0]
             /\ Len(nodes') = 0 /\ Len(edges') = 0 /\ DOMAIN metadata' = {}
             /\ (Len(nodes) = 0 /\ Len(edges) = 0 /\ DOMAIN metadata = {}) =>
                    (nodes' = nodes /\ edges' = edges /\ metadata' = metadata)]_vars

\* C19's case: the caller holds a clear of a store that an earlier build
\* had filled and an earlier call had written to.
C19_Witness ==
    /\ Returned("clear")
    /\ adjacency # <<>>
    /\ writes >= 2
    /\ Len(nodes) = 0
\* C20: the counts build(metadata, clear_existing = True) returns for
\* tables, columns, foreign_keys and column_relationships are the counts
\* get_stats gives of the store when build returns.
C20_BuildStatsMatchStore ==
    Returned("build") =>
        LET ret == result[1].ret
            stats == get_stats(nodes, edges)
        IN result[1].args[2] =>
              /\ ret.tables = stats.tables
              /\ ret.columns = stats.columns
              /\ ret.foreign_keys = stats.foreign_keys
              /\ ret.column_relationships = stats.column_relationships
\* The column nodes of the store.
ColumnNodes == {nodes[i] : i \in {j \in 1..Len(nodes) : nodes[j].type = "column"}}

\* C21: after build, is_pk of a column node is true exactly when the name
\* of the column is in the primary_key list of the node of its table.
C21_IsPkMatchesTablePrimaryKey ==
    Returned("build") =>
        \A c \in ColumnNodes :
            LET table == get_node(nodes, c.data.table)
            IN table # <<>> =>
                  (c.data.is_pk <=> c.data.name \in SeqToSet(table[1].data.primary_key))
\* The ids of the nodes of the store.
NodeIds == {nodes[i].id : i \in 1..Len(nodes)}

\* C22: every edge of the store goes from the id of a stored node to the
\* id of a stored node.
C22_EdgesReferenceNodes ==
    \A i \in 1..Len(edges) : edges[i].from_id \in NodeIds /\ edges[i].to_id \in NodeIds
\* The operations of the query engine.
EngineOps ==
    {"find_path", "find_multi_path", "generate_join", "explain_table", "list_tables",
     "list_relationships", "refresh"}

\* C23: no operation of the query engine changes the nodes, edges or
\* metadata of the store, and the adjacency index changes in no step but a
\* refresh: every query and every write to the store leaves it as it is.
C23_EngineLeavesStoreAndIndex ==
    [][/\ \A call \in {result'[i] : i \in 1..Len(result')} :
             (Calls(call) /\ call.op \in EngineOps) =>
                 /\ nodes' = nodes /\ edges' = edges /\ metadata' = metadata
                 /\ call.op # "refresh" => adjacency' = adjacency
       /\ adjacency' # adjacency => (result = <<>> /\ Returned("refresh")')]_vars

\* C23's case: a query has answered from an index that a write to the
\* store has left behind.
C23_Witness ==
    /\ Returned("explain_table")
    /\ writes >= 1
    /\ adjacency # build_adjacency(edges)
\* The builds that have been called have all returned.
BuildsReturned == \A b \in 1..Len(result) : result[b].op = "build" /\ result[b].ret # <<>>

\* What a build of the snapshot leaves when it runs alone.
BuiltAlone(b) == build_store(EmptyStore, result[b].args[1], TRUE, result[b].now)

\* C24, serialized builds: when every build has returned and none ran
\* while another was running, the store is what the last build leaves when
\* it runs alone.
C24_SerializedBuilds ==
    (/\ Len(result) >= 1
     /\ BuildsReturned
     /\ \A b \in 1..Len(result) : ~result[b].overlapped) =>
        [nodes |-> nodes, edges |-> edges, metadata |-> metadata] = BuiltAlone(Len(result))

\* C24, interleaved builds: two builds of different snapshots have returned
\* and the store holds neither the nodes and edges of the one alone nor
\* those of the other alone.
C24_Witness ==
    /\ Len(result) = 2
    /\ BuildsReturned
    /\ result[1].args[1] # result[2].args[1]
    /\ \A b \in {1, 2} :
          \/ SeqToSet(nodes) # SeqToSet(BuiltAlone(b).nodes)
          \/ SeqToSet(edges) # SeqToSet(BuiltAlone(b).edges)
\* A found path from source to target: one edge fewer than nodes, edge i an
\* entry of the index from path[i] to path[i + 1] with these endpoints, and
\* the weight the sum of the edges' weights.
Consistent(ret, source, target) ==
    /\ ret.path # <<>>
    /\ ret.path[1] = source
    /\ ret.path[Len(ret.path)] = target
    /\ Len(ret.edges) = Len(ret.path) - 1
    /\ \A i \in 1..Len(ret.edges) :
          /\ ret.edges[i].from_id = ret.path[i]
          /\ ret.edges[i].to_id = ret.path[i + 1]
          /\ <<ret.path[i + 1], ret.edges[i]>> \in SeqToSet(Get(adjacency, ret.path[i], <<>>))
          /\ Get(ret.edges[i].data, "reverse", FALSE) = TRUE =>
                \E edge \in SeqToSet(Get(adjacency, ret.path[i + 1], <<>>)) :
                    /\ edge[1] = ret.path[i]
                    /\ edge[2].from_id = ret.path[i + 1]
                    /\ edge[2].to_id = ret.path[i]
                    /\ ret.edges[i] = reverse_edge(edge[2])
    /\ ret.total_weight = SumSeq([i \in 1..Len(ret.edges) |-> ret.edges[i].weight])

\* C25: a found find_path or find_multi_path result starts at the resolved
\* source, ends at the resolved target, has one edge fewer than nodes, edge i
\* goes from path[i] to path[i + 1] (a reverse edge is the marked swap of the
\* forward one), the weight is the sum of the edge weights, and a find_path
\* path visits no node twice.
C25_FoundPathsConsistent ==
    /\ (Returned("find_path") /\ result[1].ret.found) =>
          LET ret == result[1].ret
          IN /\ Consistent(ret, resolve_table_name(nodes, result[1].args[1])[1],
                           resolve_table_name(nodes, result[1].args[2])[1])
             /\ \A i, j \in 1..Len(ret.path) : ret.path[i] = ret.path[j] => i = j
    /\ (Returned("find_multi_path") /\ result[1].ret.found) =>
          LET tables == result[1].args[1]
          IN Consistent(result[1].ret, Resolved(tables)[1][1], Resolved(tables)[Len(tables)][1])

\* C25's case: a found path over three names that takes an edge backwards
\* and comes back to a table it has passed.
C25_Witness ==
    /\ Returned("find_multi_path")
    /\ result[1].ret.found
    /\ \E i \in 1..Len(result[1].ret.edges) :
          Get(result[1].ret.edges[i].data, "reverse", FALSE) = TRUE
    /\ \E i, j \in 1..Len(result[1].ret.path) : i < j /\ result[1].ret.path[i] = result[1].ret.path[j]
\* The positions of the FROM and JOIN clauses of a SQL text.
Declarations(sql) == {i \in 1..Len(sql) : sql[i].kw \in {"FROM", "JOIN"}}

\* C26: in the SQL of a successful generate_join no alias is declared by two
\* FROM or JOIN clauses, also when the stitched path visits a table twice.
C26_AliasDeclaredOnce ==
    (Returned("generate_join") /\ result[1].ret.success) =>
        LET sql == result[1].ret.sql
        IN \A i \in Declarations(sql) : \A j \in Declarations(sql) :
              sql[i].alias = sql[j].alias => i = j
\* The k-th alias candidate of a short name: the lowercase first letter, the
\* lowercase prefixes of length 2, 3, ... up to the whole name, then the
\* first letter followed by 1, 2, 3, ...
Candidate(name, k) ==
    IF k <= Len(name) THEN Lower(SubSeq(name, 1, k))
    ELSE Lower(SubSeq(name, 1, 1)) \o IntToStr(k - Len(name))

\* The first candidate of the name that is not among the aliases given out.
FirstFree(name, given) ==
    LET k == CHOOSE k \in 1..(Len(name) + Cardinality(given) + 1) :
                 /\ Candidate(name, k) \notin given
                 /\ \A j \in 1..(k - 1) : Candidate(name, j) \in given
    IN Candidate(name, k)

\* The alias given to the table at position i of the list, the tables taken
\* in list order.
RECURSIVE AliasAt(_, _)
AliasAt(tables, i) ==
    FirstFree(AfterLastDot(tables[i]), {AliasAt(tables, j) : j \in 1..(i - 1)})

\* C27: _generate_aliases takes the tables in list order and gives each the
\* first candidate not given out before; a table's alias is the one of its
\* last position.  [Users, Orders, OrderItems] get u, o, or.
C27_AliasCandidateOrder ==
    Returned("generate_aliases") =>
        LET tables == result[1].args[1]
            aliases == result[1].ret
        IN /\ DOMAIN aliases = SeqToSet(tables)
           /\ \A i \in 1..Len(tables) :
                 (\A j \in (i + 1)..Len(tables) : tables[j] # tables[i]) =>
                     aliases[tables[i]] = AliasAt(tables, i)
           /\ tables = <<dboUsers, dboOrders, dboOrderItems>> =>
                 /\ aliases[dboUsers] = <<"u">>
                 /\ aliases[dboOrders] = <<"o">>
                 /\ aliases[dboOrderItems] = <<"o", "r">>

\* C27's case: the aliases of [Users, Orders, OrderItems].
C27_Witness ==
    /\ Returned("generate_aliases")
    /\ result[1].args[1] = <<dboUsers, dboOrders, dboOrderItems>>
    /\ result[1].ret[dboOrderItems] = <<"o", "r">>
\* The fk edges of the store.
StoredFkEdges == SeqToSet(get_edges_by_type(edges, "fk"))

\* Every edge of the result is an fk edge of the store or the reverse of one.
EdgesInStore(ret) ==
    \A i \in 1..Len(ret.edges) :
        \/ ret.edges[i] \in StoredFkEdges
        \/ \E edge \in StoredFkEdges :
              /\ ret.edges[i].from_id = edge.to_id
              /\ ret.edges[i].to_id = edge.from_id
              /\ ret.edges[i].type = edge.type
              /\ ret.edges[i].weight = edge.weight
              /\ ret.edges[i].data = Merge(edge.data, [reverse |-> TRUE, original_direction |-> "from"])

BuiltFrom(m) == build_store(EmptyStore, m, TRUE, CHOOSE now \in Timestamps : TRUE)

\* The table and column ids of a snapshot.
SnapshotIds(m) ==
    {Dot(m.tables[i].schema, m.tables[i].name) : i \in 1..Len(m.tables)}
    \cup {Dot(Dot(m.columns[i].table_schema, m.columns[i].table_name), m.columns[i].name) :
             i \in 1..Len(m.columns)}

\* C29: after build(m, clear_existing = True) the nodes, the edges and the
\* database_name, server_name and version metadata are those of a build of
\* m on a new store, whatever the store held before; every node is a table
\* or column of m and the metadata has the four keys of a build only.
C29_BuildDependsOnSnapshotOnly ==
    (Returned("build") /\ result[1].args[2]) =>
        LET m == result[1].args[1]
        IN /\ nodes = BuiltFrom(m).nodes
           /\ edges = BuiltFrom(m).edges
           /\ \A key \in {"database_name", "server_name", "version"} :
                 get_metadata(metadata, key) = get_metadata(BuiltFrom(m).metadata, key)
           /\ DOMAIN metadata = {"database_name", "server_name", "scan_timestamp", "version"}
           /\ {nodes[i].id : i \in 1..Len(nodes)} = SnapshotIds(m)
           /\ \A i \in 1..Len(edges) :
                 {edges[i].from_id, edges[i].to_id} \subseteq SnapshotIds(m)

\* C29's case: a build with clear_existing = True has returned on a store
\* that held another graph, which the engine's index still shows.
C29_Witness ==
    /\ Returned("build")
    /\ result[1].args[2]
    /\ adjacency # <<>>
    /\ adjacency # build_adjacency(edges)
\* No node was expanded twice by the search that is running.
ExpandedOnce ==
    Searching =>
        LET expanded == result[1].st.expanded
        IN /\ \A i, j \in 1..Len(expanded) : expanded[i] = expanded[j] => i = j
           /\ SeqToSet(expanded) = result[1].st.visited

\* The loop goes on exactly while the heap is not empty and the target has
\* not been expanded, and find_path returns what the search has found.
EndsAtTargetOrEmptyHeap ==
    /\ (Searching /\ Searching') =>
          result[1].st.heap # {} /\ result[1].to_table \notin result[1].st.visited
    /\ (Searching /\ Returned("find_path")') =>
          /\ result[1].st.heap = {} \/ result[1].to_table \in result[1].st.visited
          /\ result'[1].ret = find_path(nodes, adjacency, result[1].args[1], result[1].args[2])
    /\ (Assigning /\ Returned("generate_aliases")') =>
          result'[1].ret = generate_aliases(result[1].args[1])

\* C30: on an index with a cycle, a self-referencing edge, parallel edges
\* and a zero-weight edge, every find_path that has started returns, no node
\* is expanded twice, the loop ends when the target has been expanded or the
\* heap is empty; every _generate_aliases that has started returns.
C30_SearchAndAliasesTerminate ==
    /\ []ExpandedOnce
    /\ [][EndsAtTargetOrEmptyHeap]_vars
    /\ Searching ~> Returned("find_path")
    /\ Assigning ~> Returned("generate_aliases")

\* C30's case: a search on the whole of SearchEdges that has expanded three
\* nodes and still holds a heap entry of a node it has expanded.
C30_Witness ==
    /\ Searching
    /\ edges = SearchEdges
    /\ Len(result[1].st.expanded) >= 3
    /\ \E x \in result[1].st.heap : x[2] \in result[1].st.visited
=============================================================================
